---- MODULE Spec2Model ----
(***************************************************************************)
(* Model of the nt-list crate: the doubly linked NT list (NtListHead,      *)
(* NtListEntry, Iter/IterMut) and its owning wrapper NtBoxingListHead, the *)
(* singly linked list (NtSingleListHead, NtBoxingSingleListHead) and the   *)
(* clear of list_entry's BoxingListHead.                                   *)
(*                                                                         *)
(* Memory is a set of addresses.  A list header lives at a pinned address  *)
(* and doubles as the end marker of its ring.  Every element is a boxed    *)
(* allocation; its NtListEntry field lives `offset` bytes into the         *)
(* element, and the links of the ring hold entry addresses.                *)
(***************************************************************************)
EXTENDS Integers, Sequences, FiniteSets

\* ------------------------------------------------------------------------
\* Bounds and layout
\* ------------------------------------------------------------------------

\* Number of elements that may be allocated in one behaviour.
MaxElems == 3

\* ptr::null_mut(); also stands for Option::None in return values.
NULL == 0

\* size_of::<MyElement>() for the #[repr(C)] test element (i32, padding, two pointers).
ElemSize == 24

\* <MyElement as NtListElement<MyList>>::offset(): the entry field follows the i32 value.
offset == 8

\* Pinned addresses of the two list headers (moveit! { let mut list1 ...; let mut list2 ...; }).
Heads == {4000, 4016}

\* Pinned address of a third list header (moveit! { let mut list3 ... }), for the
\* programs that own three lists.
Head3 == 4064

ThreeHeads == Heads \cup {Head3}

\* Address of the k-th allocation made by Box::new.
ElemAddr(k) == k * ElemSize

ElemAddrs == {ElemAddr(k) : k \in 1..MaxElems}

\* NtListHead::entry: element address -> address of its NtListEntry field.
entry(element) == element + offset

\* NtListEntry::containing_record(_mut): entry address -> element address.
containing_record(e) == e - offset

Entries == {entry(a) : a \in ElemAddrs}

\* Everything that has a flink/blink pair.
Nodes == ThreeHeads \cup Entries

\* NtListHead::end_marker(_mut): the header's own address seen as an entry.
end_marker(h) == h

\* Address of the header of the singly linked list (`let mut list = NtBoxingSingleListHead::new()`).
SingleHead == 4032

\* Everything that has a `next` field when the elements are linked into the singly linked list.
SingleNodes == {SingleHead} \cup Entries

\* Every list header a program may own.
AllHeads == ThreeHeads \cup {SingleHead}

VARIABLES
    flink,      \* flink field of every header and entry
    blink,      \* blink field of every header and entry
    single_next,\* next field of the singly linked list's header and of every entry
    allocated,  \* number of Box::new calls so far
    boxed,      \* per element: how often a Box of it was handed to the caller
    freed,      \* per element: how often it was deallocated
    live,       \* per header: the list has been constructed and not dropped yet
    pc,         \* operation in progress: "idle", "clear", "retain", "drop", "extend"
    self,       \* header the operation in progress works on
    current,    \* local `current` of NtBoxingListHead::clear
    previous,   \* local `previous` of Extend::extend
    pending,    \* items the iterator passed to extend has yet to yield
    itm,        \* the IterMut driven by retain / Drop
    it,         \* an Iter held by the caller
    ret,        \* value returned by the last pop / next / next_back
    lastOp,     \* the last operation called: its name, its list and its argument
    before,     \* the list as it was before the operation in progress, before the
                \* push_back / append just made, or before a push_back undone by pop_back
    mode,       \* per header: which kind of calls it has seen since new()
    pushed,     \* per header: the elements pushed, in call order (while mode is a push mode)
    fcalls,     \* calls of retain's predicate: <<element, answer>> in call order
    fwdLog,     \* elements returned by next() of `it`
    backLog,    \* elements returned by next_back() of `it`
    met         \* `it` has returned the element at which its cursors coincided

vars == <<flink, blink, single_next, allocated, boxed, freed, live, pc, self, current, previous,
          pending, itm, it, ret, lastOp, before, mode, pushed, fcalls, fwdLog, backLog, met>>

\* ------------------------------------------------------------------------
\* Pure helpers
\* ------------------------------------------------------------------------

Reverse(s) == [i \in 1..Len(s) |-> s[Len(s) + 1 - i]]

\* The link fields as one value, so that pointer surgery can be written as a function.
Links == [f |-> flink, b |-> blink]

\* NtListHead::is_empty
is_empty(m, h) == m.f[h] = end_marker(h)

\* front without the `!self.is_empty()` test.
front_Unchecked(m, h) == containing_record(m.f[h])

\* NtListHead::front / front_mut
front(m, h) == IF ~is_empty(m, h) THEN containing_record(m.f[h]) ELSE NULL

\* NtListHead::back / back_mut
back(m, h) == IF ~is_empty(m, h) THEN containing_record(m.b[h]) ELSE NULL

\* remove that also resets the removed entry's own links.
remove_ResetEntry(m, e) ==
    LET old_flink == m.f[e]
        old_blink == m.b[e]
    IN  [f |-> [m.f EXCEPT ![old_blink] = old_flink, ![e] = NULL],
         b |-> [m.b EXCEPT ![old_flink] = old_blink, ![e] = NULL]]

\* remove without `(*old_blink).flink = old_flink`.
remove_OnlyBlink(m, e) ==
    LET old_flink == m.f[e]
        old_blink == m.b[e]
    IN  [f |-> m.f, b |-> [m.b EXCEPT ![old_flink] = old_blink]]

\* remove without `(*old_flink).blink = old_blink`.
remove_OnlyFlink(m, e) ==
    LET old_flink == m.f[e]
        old_blink == m.b[e]
    IN  [f |-> [m.f EXCEPT ![old_blink] = old_flink], b |-> m.b]

\* NtListEntry::remove
remove(m, e) ==
    LET old_flink == m.f[e]
        old_blink == m.b[e]
    IN  [f |-> [m.f EXCEPT ![old_blink] = old_flink],
         b |-> [m.b EXCEPT ![old_flink] = old_blink]]

\* push_back without `(*old_blink).flink = entry`.
push_back_NoPrevLink(m, h, element) ==
    LET e == entry(element)
        old_blink == m.b[h]
    IN  [f |-> [m.f EXCEPT ![e] = end_marker(h)],
         b |-> [m.b EXCEPT ![e] = old_blink, ![h] = e]]

\* push_back without `self.blink = entry`.
push_back_NoHeadBlink(m, h, element) ==
    LET e == entry(element)
        old_blink == m.b[h]
    IN  [f |-> [m.f EXCEPT ![e] = end_marker(h), ![old_blink] = e],
         b |-> [m.b EXCEPT ![e] = old_blink]]

\* NtListHead::push_back
push_back(m, h, element) ==
    LET e == entry(element)
        old_blink == m.b[h]
    IN  [f |-> [m.f EXCEPT ![e] = end_marker(h), ![old_blink] = e],
         b |-> [m.b EXCEPT ![e] = old_blink, ![h] = e]]

\* push_front without `(*old_flink).blink = entry`.
push_front_NoOldBlink(m, h, element) ==
    LET e == entry(element)
        old_flink == m.f[h]
    IN  [f |-> [m.f EXCEPT ![e] = old_flink, ![h] = e],
         b |-> [m.b EXCEPT ![e] = end_marker(h)]]

\* push_front that links the element at the back.
push_front_AtBack(m, h, element) == push_back(m, h, element)

\* NtListHead::push_front
push_front(m, h, element) ==
    LET e == entry(element)
        old_flink == m.f[h]
    IN  [f |-> [m.f EXCEPT ![e] = old_flink, ![h] = e],
         b |-> [m.b EXCEPT ![e] = end_marker(h), ![old_flink] = e]]

\* pop_back that takes `self.flink` instead of `self.blink`.
pop_back_FromFront(m, h) ==
    IF ~is_empty(m, h)
    THEN LET e == m.f[h] IN [m |-> remove(m, e), ret |-> containing_record(e)]
    ELSE [m |-> m, ret |-> NULL]

\* NtListHead::pop_back: the links afterwards and the element returned.
pop_back(m, h) ==
    IF ~is_empty(m, h)
    THEN LET e == m.b[h] IN [m |-> remove(m, e), ret |-> containing_record(e)]
    ELSE [m |-> m, ret |-> NULL]

\* pop_front without `entry.remove()`.
pop_front_NoRemove(m, h) ==
    IF ~is_empty(m, h)
    THEN [m |-> m, ret |-> containing_record(m.f[h])]
    ELSE [m |-> m, ret |-> NULL]

\* pop_front that takes `self.blink` instead of `self.flink`.
pop_front_FromBack(m, h) == pop_back(m, h)

\* NtListHead::pop_front
pop_front(m, h) ==
    IF ~is_empty(m, h)
    THEN LET e == m.f[h] IN [m |-> remove(m, e), ret |-> containing_record(e)]
    ELSE [m |-> m, ret |-> NULL]

\* clear that leaves the header's links alone.
clear_Nothing(m, h) == m

\* clear that also nulls the outward links of the first and the last entry.
clear_DetachEnds(m, h) ==
    [f |-> [m.f EXCEPT ![m.b[h]] = NULL, ![h] = end_marker(h)],
     b |-> [m.b EXCEPT ![m.f[h]] = NULL, ![h] = end_marker(h)]]

\* clear that resets blink and leaves flink alone.
clear_BlinkOnly(m, h) == [f |-> m.f, b |-> [m.b EXCEPT ![h] = end_marker(h)]]

\* clear that resets flink and leaves blink alone.
clear_FlinkOnly(m, h) == [f |-> [m.f EXCEPT ![h] = end_marker(h)], b |-> m.b]

\* NtListHead::clear
clear(m, h) ==
    [f |-> [m.f EXCEPT ![h] = end_marker(h)],
     b |-> [m.b EXCEPT ![h] = end_marker(h)]]

\* append without `(*other.flink).blink = self.blink`.
append_NoBlink(m, s, other) ==
    IF is_empty(m, other)
    THEN m
    ELSE LET f1 == [m.f EXCEPT ![m.b[s]] = m.f[other]]
             f2 == [f1 EXCEPT ![m.b[other]] = end_marker(s)]
             b2 == [m.b EXCEPT ![s] = m.b[other]]
         IN  [f |-> [f2 EXCEPT ![other] = end_marker(other)],
              b |-> [b2 EXCEPT ![other] = end_marker(other)]]

\* append that also points the blink of other's last entry at self's old last node.
append_ExtraBlink(m, s, other) ==
    IF is_empty(m, other)
    THEN m
    ELSE LET f1 == [m.f EXCEPT ![m.b[s]] = m.f[other]]
             b1 == [m.b EXCEPT ![f1[other]] = m.b[s]]
             f2 == [f1 EXCEPT ![b1[other]] = end_marker(s)]
             b2 == [b1 EXCEPT ![s] = b1[other]]
             b3 == [b2 EXCEPT ![m.b[other]] = m.b[s]]
         IN  [f |-> [f2 EXCEPT ![other] = end_marker(other)],
              b |-> [b3 EXCEPT ![other] = end_marker(other)]]

\* append that resets only the flink of other's header.
append_OtherBlinkKept(m, s, other) ==
    IF is_empty(m, other)
    THEN m
    ELSE LET f1 == [m.f EXCEPT ![m.b[s]] = m.f[other]]
             b1 == [m.b EXCEPT ![f1[other]] = m.b[s]]
             f2 == [f1 EXCEPT ![b1[other]] = end_marker(s)]
             b2 == [b1 EXCEPT ![s] = b1[other]]
         IN  [f |-> [f2 EXCEPT ![other] = end_marker(other)],
              b |-> b2]

\* append without the `if other.is_empty() { return; }` test, and with every right-hand
\* side read before the first link is written.
append_Unguarded(m, s, other) ==
    LET f1 == [m.f EXCEPT ![m.b[s]] = m.f[other]]
        f2 == [f1 EXCEPT ![m.b[other]] = end_marker(s)]
        b1 == [m.b EXCEPT ![m.f[other]] = m.b[s]]
        b2 == [b1 EXCEPT ![s] = m.b[other]]
    IN  [f |-> [f2 EXCEPT ![other] = end_marker(other)],
         b |-> [b2 EXCEPT ![other] = end_marker(other)]]

\* NtListHead::append, one assignment after the other.
append(m, s, other) ==
    IF is_empty(m, other)
    THEN m
    ELSE LET f1 == [m.f EXCEPT ![m.b[s]] = m.f[other]]
             b1 == [m.b EXCEPT ![f1[other]] = m.b[s]]
             f2 == [f1 EXCEPT ![b1[other]] = end_marker(s)]
             b2 == [b1 EXCEPT ![s] = b1[other]]
         IN  [f |-> [f2 EXCEPT ![other] = end_marker(other)],
              b |-> [b2 EXCEPT ![other] = end_marker(other)]]

\* ------------------------------------------------------------------------
\* Iter / IterMut
\* ------------------------------------------------------------------------

NoIter == [head |-> NULL, flink |-> NULL, blink |-> NULL]

\* iter that starts both cursors at the last entry.
iter_FromBlink(m, h) == [head |-> h, flink |-> m.b[h], blink |-> m.b[h]]

\* NtListHead::iter / iter_mut
iter(m, h) == [head |-> h, flink |-> m.f[h], blink |-> m.b[h]]

\* terminate that resets the front cursor only.
terminate_FrontOnly(i) == [i EXCEPT !.flink = i.head]

\* Iter::terminate / IterMut::terminate
terminate(i) == [i EXCEPT !.flink = i.head, !.blink = i.head]

\* next without the `self.flink == self.blink` test.
next_NoMeet(m, i) ==
    IF i.flink = i.head
    THEN [i |-> i, ret |-> NULL]
    ELSE [i   |-> [i EXCEPT !.flink = m.f[i.flink]],
          ret |-> containing_record(i.flink)]

\* Iter::next / IterMut::next: the iterator afterwards and the element returned.
next(m, i) ==
    IF i.flink = i.head
    THEN [i |-> i, ret |-> NULL]
    ELSE [i   |-> IF i.flink = i.blink THEN terminate(i)
                  ELSE [i EXCEPT !.flink = m.f[i.flink]],
          ret |-> containing_record(i.flink)]

\* next_back that steps the back cursor along flink.
next_back_ViaFlink(m, i) ==
    IF i.blink = i.head
    THEN [i |-> i, ret |-> NULL]
    ELSE [i   |-> IF i.blink = i.flink THEN terminate(i)
                  ELSE [i EXCEPT !.blink = m.f[i.blink]],
          ret |-> containing_record(i.blink)]

\* Iter::next_back / IterMut::next_back
next_back(m, i) ==
    IF i.blink = i.head
    THEN [i |-> i, ret |-> NULL]
    ELSE [i   |-> IF i.blink = i.flink THEN terminate(i)
                  ELSE [i EXCEPT !.blink = m.b[i.blink]],
          ret |-> containing_record(i.blink)]

\* last that takes the element at the front cursor.
last_FromFront(m, i) == next(m, i).ret

\* Iter::last / IterMut::last: self.next_back()
last(m, i) == next_back(m, i).ret

\* Driving an iterator with next() until it returns None; at most n calls.
RECURSIVE Collect(_, _, _)
Collect(m, i, n) ==
    LET r == next(m, i)
    IN  IF n = 0 \/ r.ret = NULL THEN <<>>
        ELSE <<r.ret>> \o Collect(m, r.i, n - 1)

\* Driving an iterator with next_back() until it returns None; at most n calls.
RECURSIVE CollectBack(_, _, _)
CollectBack(m, i, n) ==
    LET r == next_back(m, i)
    IN  IF n = 0 \/ r.ret = NULL THEN <<>>
        ELSE <<r.ret>> \o CollectBack(m, r.i, n - 1)

\* More steps than any ring has nodes.
Fuel == Cardinality(Nodes) + 1

\* `for element in list.iter()`
Items(m, h) == Collect(m, iter(m, h), Fuel)

\* NtListHead::len: self.iter().count()
len(m, h) == Len(Items(m, h))

\* ------------------------------------------------------------------------
\* verify_all_links: raw walks over the link fields
\* ------------------------------------------------------------------------

\* The entries met following flink from `cur` up to the end marker.
RECURSIVE WalkF(_, _, _, _)
WalkF(m, end, cur, n) ==
    IF n = 0 \/ cur = end \/ cur \notin Nodes THEN <<>>
    ELSE <<cur>> \o WalkF(m, end, m.f[cur], n - 1)

\* The entries met following blink from `cur` up to the end marker.
RECURSIVE WalkB(_, _, _, _)
WalkB(m, end, cur, n) ==
    IF n = 0 \/ cur = end \/ cur \notin Nodes THEN <<>>
    ELSE <<cur>> \o WalkB(m, end, m.b[cur], n - 1)

forward_entries(m, h) == WalkF(m, h, m.f[h], Fuel)

backward_entries(m, h) == WalkB(m, h, m.b[h], Fuel)

\* The header and every linked entry.
Ring(m, h) == {h} \cup {forward_entries(m, h)[i] : i \in 1..Len(forward_entries(m, h))}

\* What verify_all_links asserts, plus the two link equations at every ring node.
LinkConsistent(m, h) ==
    /\ Len(forward_entries(m, h)) < Fuel
    /\ forward_entries(m, h) = Reverse(backward_entries(m, h))
    /\ \A n \in Ring(m, h) :
          /\ m.f[n] \in Nodes /\ m.b[n] \in Nodes
          /\ m.b[m.f[n]] = n
          /\ m.f[m.b[n]] = n

\* The elements of the list in forward order, read off the raw links.
Elements(m, h) ==
    [i \in 1..Len(forward_entries(m, h)) |-> containing_record(forward_entries(m, h)[i])]

\* ------------------------------------------------------------------------
\* State machine
\* ------------------------------------------------------------------------

NoOp == [op |-> "new", l |-> NULL, x |-> NULL]

\* Record of a call on list h with argument x.
Op(name, h, x) == [op |-> name, l |-> h, x |-> x]

NoSnap == [items |-> <<>>, len |-> 0, empty |-> TRUE]

\* What the caller can observe of list h: its iteration order, len() and is_empty().
Snap(m, h) == [items |-> Items(m, h), len |-> len(m, h), empty |-> is_empty(m, h)]

\* Box::from_raw(element) reached once more (counted up to 2: once is right, twice is a double release).
Release(cnt, element) ==
    [a \in DOMAIN cnt |-> IF a = element /\ cnt[a] < 2 THEN cnt[a] + 1 ELSE cnt[a]]

\* drop(Box::from_raw(element)): the allocation goes back to the allocator and its
\* entry's link fields are gone with it.
dealloc(m, element) ==
    [f |-> [m.f EXCEPT ![entry(element)] = NULL],
     b |-> [m.b EXCEPT ![entry(element)] = NULL]]

\* The memory an operation starts on: the caller has let the Box it got from the
\* previous pop go out of scope (`let element = list.pop_back().unwrap(); ...`).
Mem ==
    [f |-> [n \in Nodes |-> IF n \in Entries /\ boxed[containing_record(n)] > 0 THEN NULL ELSE flink[n]],
     b |-> [n \in Nodes |-> IF n \in Entries /\ boxed[containing_record(n)] > 0 THEN NULL ELSE blink[n]]]

\* No operation is in progress and no iterator borrows a list.
Idle == pc = "idle" /\ it = NoIter

\* What every program starts with: nothing allocated, no call made yet.
InitCommon ==
    /\ allocated = 0
    /\ boxed = [a \in ElemAddrs |-> 0]
    /\ freed = [a \in ElemAddrs |-> 0]
    /\ pc = "idle"
    /\ self = NULL
    /\ current = NULL
    /\ previous = NULL
    /\ pending = 0
    /\ itm = NoIter
    /\ it = NoIter
    /\ ret = NULL
    /\ lastOp = NoOp
    /\ before = NoSnap
    /\ mode = [h \in AllHeads |-> "new"]
    /\ pushed = [h \in AllHeads |-> <<>>]
    /\ fcalls = <<>>
    /\ fwdLog = <<>>
    /\ backLog = <<>>
    /\ met = FALSE

\* A program that owns two doubly linked lists: NtListHead::new / NtBoxingListHead::new
\* for both headers; NtListEntry::new for the entries.
Init ==
    /\ flink = [n \in Nodes |-> IF n \in Heads THEN n ELSE NULL]
    /\ blink = [n \in Nodes |-> IF n \in Heads THEN n ELSE NULL]
    /\ single_next = [n \in SingleNodes |-> NULL]
    /\ live = [h \in AllHeads |-> h \in Heads]
    /\ InitCommon

\* A program that owns one singly linked list: NtSingleListHead::new /
\* NtBoxingSingleListHead::new for the header; NtSingleListEntry::new for the entries.
InitSingle ==
    /\ flink = [n \in Nodes |-> NULL]
    /\ blink = [n \in Nodes |-> NULL]
    /\ single_next = [n \in SingleNodes |-> NULL]
    /\ live = [h \in AllHeads |-> h = SingleHead]
    /\ InitCommon

\* List h has seen a call of this kind: it stays in a push mode only while every call
\* since new() was a push of that one kind.
Seen(h, kind) ==
    mode' = [mode EXCEPT ![h] = IF @ \in {"new", kind} /\ kind # "mixed" THEN kind ELSE "mixed"]

Pushed(h, element) ==
    pushed' = [pushed EXCEPT ![h] = IF mode'[h] = "mixed" THEN <<>> ELSE Append(@, element)]

\* NtBoxingListHead::push_back
PushBack(h) ==
    /\ Idle /\ live[h] /\ allocated < MaxElems
    /\ LET element == ElemAddr(allocated + 1)
           m == push_back(Mem, h, element)
       IN  /\ flink' = m.f
           /\ blink' = m.b
           /\ lastOp' = Op("push_back", h, element)
           /\ Seen(h, "push_back")
           /\ Pushed(h, element)
    /\ before' = Snap(Mem, h)
    /\ allocated' = allocated + 1
    /\ ret' = NULL
    /\ UNCHANGED <<single_next, boxed, freed, live, pc, self, current, previous, pending, itm, it,
                   fcalls, fwdLog, backLog, met>>

\* NtBoxingListHead::push_front
PushFront(h) ==
    /\ Idle /\ live[h] /\ allocated < MaxElems
    /\ LET element == ElemAddr(allocated + 1)
           m == push_front(Mem, h, element)
       IN  /\ flink' = m.f
           /\ blink' = m.b
           /\ lastOp' = Op("push_front", h, element)
           /\ Seen(h, "push_front")
           /\ Pushed(h, element)
    /\ before' = NoSnap
    /\ allocated' = allocated + 1
    /\ ret' = NULL
    /\ UNCHANGED <<single_next, boxed, freed, live, pc, self, current, previous, pending, itm, it,
                   fcalls, fwdLog, backLog, met>>

\* NtBoxingListHead::pop_back
PopBack(h) ==
    /\ Idle /\ live[h]
    /\ LET r == pop_back(Mem, h)
       IN  /\ flink' = r.m.f
           /\ blink' = r.m.b
           /\ ret' = r.ret
           /\ boxed' = IF r.ret # NULL THEN Release(boxed, r.ret) ELSE boxed
    /\ LET undo == lastOp.op = "push_back" /\ lastOp.l = h
       IN  \* x: the element the push_back right before this call put on the list, if any
           /\ lastOp' = Op("pop_back", h, IF undo THEN lastOp.x ELSE NULL)
           /\ before' = IF undo THEN before ELSE NoSnap
    /\ Seen(h, "mixed")
    /\ pushed' = [pushed EXCEPT ![h] = <<>>]
    /\ UNCHANGED <<single_next, allocated, freed, live, pc, self, current, previous, pending, itm, it,
                   fcalls, fwdLog, backLog, met>>

\* NtBoxingListHead::pop_front
PopFront(h) ==
    /\ Idle /\ live[h]
    /\ LET r == pop_front(Mem, h)
       IN  /\ flink' = r.m.f
           /\ blink' = r.m.b
           /\ ret' = r.ret
           /\ boxed' = IF r.ret # NULL THEN Release(boxed, r.ret) ELSE boxed
    /\ lastOp' = Op("pop_front", h, NULL)
    /\ before' = NoSnap
    /\ Seen(h, "mixed")
    /\ pushed' = [pushed EXCEPT ![h] = <<>>]
    /\ UNCHANGED <<single_next, allocated, freed, live, pc, self, current, previous, pending, itm, it,
                   fcalls, fwdLog, backLog, met>>

\* NtBoxingListHead::append
AppendOther(s, other) ==
    /\ Idle /\ live[s] /\ live[other] /\ s # other
    /\ LET m == append(Mem, s, other)
       IN  /\ flink' = m.f
           /\ blink' = m.b
    /\ lastOp' = Op("append", s, other)
    /\ before' = Snap(Mem, s)
    /\ mode' = [h \in AllHeads |-> IF h \in {s, other} THEN "mixed" ELSE mode[h]]
    /\ pushed' = [h \in AllHeads |-> IF h \in {s, other} THEN <<>> ELSE pushed[h]]
    /\ ret' = NULL
    /\ UNCHANGED <<single_next, allocated, boxed, freed, live, pc, self, current, previous, pending, itm, it,
                   fcalls, fwdLog, backLog, met>>

\* NtBoxingListHead::clear up to the loop: take `current`, then make the list appear empty.
ClearBegin(h) ==
    /\ Idle /\ live[h]
    /\ current' = Mem.f[h]
    /\ LET m == clear(Mem, h)
       IN  /\ flink' = m.f
           /\ blink' = m.b
    /\ pc' = "clear"
    /\ self' = h
    \* x: how many clear calls in a row this one makes on the list, counted up to 2
    /\ lastOp' = Op("clear", h, IF lastOp.op = "clear" /\ lastOp.l = h THEN 2 ELSE 1)
    /\ before' = Snap(Mem, h)
    /\ Seen(h, "mixed")
    /\ pushed' = [pushed EXCEPT ![h] = <<>>]
    /\ ret' = NULL
    /\ UNCHANGED <<single_next, allocated, boxed, freed, live, previous, pending, itm, it,
                   fcalls, fwdLog, backLog, met>>

\* A pass of clear that drops the element before it reads the entry's flink.
ClearStep_FreeFirst ==
    /\ pc = "clear"
    /\ current # end_marker(self)
    /\ LET element == containing_record(current)
           m == dealloc(Links, element)
       IN  /\ current' = m.f[current]
           /\ flink' = m.f
           /\ blink' = m.b
           /\ freed' = Release(freed, element)
    /\ UNCHANGED <<single_next, allocated, boxed, live, pc, self, previous, pending, itm, it,
                   ret, lastOp, before, mode, pushed, fcalls, fwdLog, backLog, met>>

\* One pass of clear's `while current != end_marker` loop.
ClearStep ==
    /\ pc = "clear"
    /\ current # end_marker(self)
    /\ LET element == containing_record(current)
           m == dealloc(Links, element)
       IN  /\ current' = flink[current]
           /\ flink' = m.f
           /\ blink' = m.b
           /\ freed' = Release(freed, element)
    /\ UNCHANGED <<single_next, allocated, boxed, live, pc, self, previous, pending, itm, it,
                   ret, lastOp, before, mode, pushed, fcalls, fwdLog, backLog, met>>

\* clear's loop ends and clear returns.
ClearReturn ==
    /\ pc = "clear"
    /\ current = end_marker(self)
    /\ pc' = "idle"
    /\ self' = NULL
    /\ current' = NULL
    /\ before' = NoSnap
    /\ UNCHANGED <<single_next, flink, blink, allocated, boxed, freed, live, previous, pending, itm, it,
                   ret, lastOp, mode, pushed, fcalls, fwdLog, backLog, met>>

\* NtBoxingListHead::retain: `self.iter_mut()`.
RetainBegin(h) ==
    /\ Idle /\ live[h]
    /\ flink' = Mem.f
    /\ blink' = Mem.b
    /\ itm' = iter(Mem, h)
    /\ pc' = "retain"
    /\ self' = h
    /\ lastOp' = Op("retain", h, NULL)
    /\ before' = Snap(Mem, h)
    /\ Seen(h, "mixed")
    /\ pushed' = [pushed EXCEPT ![h] = <<>>]
    /\ ret' = NULL
    /\ UNCHANGED <<single_next, allocated, boxed, freed, live, current, previous, pending, it,
                   fcalls, fwdLog, backLog, met>>

\* A pass of retain that drops a rejected element while it is still linked.
RetainStep_DropLinked ==
    /\ pc = "retain"
    /\ LET r == next(Links, itm)
       IN  /\ r.ret # NULL
           /\ itm' = r.i
           /\ \E keep \in BOOLEAN :
                /\ fcalls' = Append(fcalls, <<r.ret, keep>>)
                /\ IF ~keep
                   THEN LET m == dealloc(Links, r.ret)
                        IN  /\ flink' = m.f
                            /\ blink' = m.b
                            /\ freed' = Release(freed, r.ret)
                   ELSE UNCHANGED <<flink, blink, freed>>
    /\ UNCHANGED <<single_next, allocated, boxed, live, pc, self, current, previous, pending, it,
                   ret, lastOp, before, mode, pushed, fwdLog, backLog, met>>

\* One pass of retain's `for` loop: next(), the predicate's answer, then remove and drop.
RetainStep ==
    /\ pc = "retain"
    /\ LET r == next(Links, itm)
       IN  /\ r.ret # NULL
           /\ itm' = r.i
           /\ \E keep \in BOOLEAN :
                /\ fcalls' = Append(fcalls, <<r.ret, keep>>)
                /\ IF ~keep
                   THEN LET m == dealloc(remove(Links, entry(r.ret)), r.ret)
                        IN  /\ flink' = m.f
                            /\ blink' = m.b
                            /\ freed' = Release(freed, r.ret)
                   ELSE UNCHANGED <<flink, blink, freed>>
    /\ UNCHANGED <<single_next, allocated, boxed, live, pc, self, current, previous, pending, it,
                   ret, lastOp, before, mode, pushed, fwdLog, backLog, met>>

\* next() returns None: retain returns.
RetainReturn ==
    /\ pc = "retain"
    /\ next(Links, itm).ret = NULL
    /\ pc' = "idle"
    /\ self' = NULL
    /\ itm' = NoIter
    /\ before' = NoSnap
    /\ fcalls' = <<>>
    /\ UNCHANGED <<single_next, flink, blink, allocated, boxed, freed, live, current, previous, pending, it,
                   ret, lastOp, mode, pushed, fwdLog, backLog, met>>

\* impl Drop for NtBoxingListHead: `pinned.iter_mut()`.
DropBegin(h) ==
    /\ Idle /\ live[h]
    /\ flink' = Mem.f
    /\ blink' = Mem.b
    /\ itm' = iter(Mem, h)
    /\ pc' = "drop"
    /\ self' = h
    /\ lastOp' = Op("drop", h, NULL)
    /\ before' = NoSnap
    /\ Seen(h, "mixed")
    /\ pushed' = [pushed EXCEPT ![h] = <<>>]
    /\ ret' = NULL
    /\ UNCHANGED <<single_next, allocated, boxed, freed, live, current, previous, pending, it,
                   fcalls, fwdLog, backLog, met>>

\* One pass of Drop's `for` loop.
DropStep ==
    /\ pc = "drop"
    /\ LET r == next(Links, itm)
       IN  /\ r.ret # NULL
           /\ itm' = r.i
           /\ LET m == dealloc(Links, r.ret)
              IN  /\ flink' = m.f
                  /\ blink' = m.b
           /\ freed' = Release(freed, r.ret)
    /\ UNCHANGED <<single_next, allocated, boxed, live, pc, self, current, previous, pending, it,
                   ret, lastOp, before, mode, pushed, fcalls, fwdLog, backLog, met>>

\* next() returns None: the header itself goes out of scope.
DropReturn ==
    /\ pc = "drop"
    /\ next(Links, itm).ret = NULL
    /\ live' = [live EXCEPT ![self] = FALSE]
    /\ flink' = [flink EXCEPT ![self] = NULL]
    /\ blink' = [blink EXCEPT ![self] = NULL]
    /\ pc' = "idle"
    /\ self' = NULL
    /\ itm' = NoIter
    /\ UNCHANGED <<single_next, allocated, boxed, freed, current, previous, pending, it,
                   ret, lastOp, before, mode, pushed, fcalls, fwdLog, backLog, met>>

\* Extend::extend up to the loop, for an iterator that will yield n items.
ExtendBegin(h, n) ==
    /\ Idle /\ live[h]
    /\ n \in 0..(MaxElems - allocated)
    /\ flink' = Mem.f
    /\ blink' = Mem.b
    /\ previous' = Mem.b[h]
    /\ pending' = n
    /\ pc' = "extend"
    /\ self' = h
    /\ lastOp' = Op("extend", h, n)
    /\ before' = Snap(Mem, h)
    /\ Seen(h, "mixed")
    /\ pushed' = [pushed EXCEPT ![h] = <<>>]
    /\ ret' = NULL
    /\ UNCHANGED <<single_next, allocated, boxed, freed, live, current, itm, it,
                   fcalls, fwdLog, backLog, met>>

\* One pass of extend's `for` loop: the item is boxed, then linked behind `previous`.
ExtendStep ==
    /\ pc = "extend"
    /\ pending > 0
    /\ LET element == ElemAddr(allocated + 1)
           e == entry(element)
       IN  /\ flink' = [flink EXCEPT ![e] = end_marker(self), ![previous] = e]
           /\ blink' = [blink EXCEPT ![e] = previous]
           /\ previous' = e
    /\ allocated' = allocated + 1
    /\ pending' = pending - 1
    /\ UNCHANGED <<single_next, boxed, freed, live, pc, self, current, itm, it,
                   ret, lastOp, before, mode, pushed, fcalls, fwdLog, backLog, met>>

\* extend that returns without `self.0.blink = previous`.
ExtendReturn_NoBlink ==
    /\ pc = "extend"
    /\ pending = 0
    /\ pc' = "idle"
    /\ self' = NULL
    /\ previous' = NULL
    /\ before' = NoSnap
    /\ UNCHANGED <<single_next, flink, blink, allocated, boxed, freed, live, current, pending,
                   itm, it, ret, lastOp, mode, pushed, fcalls, fwdLog, backLog, met>>

\* The iterator is exhausted: the header's blink is set and extend returns.
ExtendReturn ==
    /\ pc = "extend"
    /\ pending = 0
    /\ blink' = [blink EXCEPT ![self] = previous]
    /\ pc' = "idle"
    /\ self' = NULL
    /\ previous' = NULL
    /\ before' = NoSnap
    /\ UNCHANGED <<single_next, flink, allocated, boxed, freed, live, current, pending, itm, it,
                   ret, lastOp, mode, pushed, fcalls, fwdLog, backLog, met>>

\* NtBoxingListHead::iter: the caller takes an iterator over list h.
IterNew(h) ==
    /\ Idle /\ live[h]
    /\ flink' = Mem.f
    /\ blink' = Mem.b
    /\ it' = iter(Mem, h)
    /\ lastOp' = Op("iter", h, NULL)
    /\ before' = Snap(Mem, h)
    /\ ret' = NULL
    /\ fwdLog' = <<>>
    /\ backLog' = <<>>
    /\ met' = FALSE
    /\ UNCHANGED <<single_next, allocated, boxed, freed, live, pc, self, current, previous,
                   pending, itm, mode, pushed, fcalls>>

\* The caller calls next() on its iterator.
IterNext ==
    /\ it # NoIter
    /\ LET r == next(Links, it)
       IN  /\ it' = r.i
           /\ ret' = r.ret
           /\ fwdLog' = IF r.ret # NULL THEN Append(fwdLog, r.ret) ELSE fwdLog
    /\ met' = (met \/ (it.flink # it.head /\ it.flink = it.blink))
    /\ lastOp' = Op("next", it.head, NULL)
    /\ UNCHANGED <<single_next, flink, blink, allocated, boxed, freed, live, pc, self, current, previous,
                   pending, itm, before, mode, pushed, fcalls, backLog>>

\* The caller calls next_back() on its iterator.
IterNextBack ==
    /\ it # NoIter
    /\ LET r == next_back(Links, it)
       IN  /\ it' = r.i
           /\ ret' = r.ret
           /\ backLog' = IF r.ret # NULL THEN Append(backLog, r.ret) ELSE backLog
    /\ met' = (met \/ (it.blink # it.head /\ it.flink = it.blink))
    /\ lastOp' = Op("next_back", it.head, NULL)
    /\ UNCHANGED <<single_next, flink, blink, allocated, boxed, freed, live, pc, self, current, previous,
                   pending, itm, before, mode, pushed, fcalls, fwdLog>>

\* The caller calls last() on its iterator, which consumes it.
\* x: how many elements the iterator had yielded before the call.
IterLast ==
    /\ it # NoIter
    /\ ret' = last(Links, it)
    /\ it' = NoIter
    /\ fwdLog' = <<>>
    /\ backLog' = <<>>
    /\ met' = FALSE
    /\ lastOp' = Op("last", it.head, Len(fwdLog) + Len(backLog))
    /\ UNCHANGED <<single_next, flink, blink, allocated, boxed, freed, live, pc, self, current, previous,
                   pending, itm, before, mode, pushed, fcalls>>

\* The caller lets go of its iterator.
IterEnd ==
    /\ it # NoIter
    /\ it' = NoIter
    /\ ret' = NULL
    /\ fwdLog' = <<>>
    /\ backLog' = <<>>
    /\ met' = FALSE
    /\ lastOp' = Op("iter_end", it.head, NULL)
    /\ before' = NoSnap
    /\ UNCHANGED <<single_next, flink, blink, allocated, boxed, freed, live, pc, self, current, previous,
                   pending, itm, mode, pushed, fcalls>>

\* ------------------------------------------------------------------------
\* Singly linked list: NtSingleListHead, NtSingleListEntry, Iter / IterMut
\* ------------------------------------------------------------------------

\* NtSingleListHead::is_empty
single_is_empty(n, h) == n[h] = NULL

\* NtSingleListHead::front / front_mut
single_front(n, h) == IF ~single_is_empty(n, h) THEN containing_record(n[h]) ELSE NULL

\* clear that leaves the header's next alone.
single_clear_Nothing(n, h) == n

\* NtSingleListHead::clear
single_clear(n, h) == [n EXCEPT ![h] = NULL]

\* pop_front without `self.next = entry.next`.
single_pop_front_NoUnlink(n, h) ==
    IF ~single_is_empty(n, h)
    THEN [m |-> n, ret |-> containing_record(n[h])]
    ELSE [m |-> n, ret |-> NULL]

\* NtSingleListHead::pop_front: the links afterwards and the element returned.
single_pop_front(n, h) ==
    IF ~single_is_empty(n, h)
    THEN LET e == n[h] IN [m |-> [n EXCEPT ![h] = n[e]], ret |-> containing_record(e)]
    ELSE [m |-> n, ret |-> NULL]

\* A push_front that writes the header's next before it copies it into the entry.
single_push_front_HeadFirst(n, h, element) ==
    LET n1 == [n EXCEPT ![h] = entry(element)]
    IN  [n1 EXCEPT ![entry(element)] = n1[h]]

\* push_front without `(*entry).next = self.next`.
single_push_front_Detached(n, h, element) == [n EXCEPT ![h] = entry(element)]

\* NtSingleListHead::push_front
single_push_front(n, h, element) ==
    LET e == entry(element)
        n1 == [n EXCEPT ![e] = n[h]]
    IN  [n1 EXCEPT ![h] = e]

\* retain's unlinking that leaves `(*previous).next` alone.
single_unlink_Nothing(n, prev, cur) == n

\* `(*previous).next = (*current).next` of retain.
single_unlink(n, prev, cur) == [n EXCEPT ![prev] = n[cur]]

\* The loop of NtSingleListHead::retain for a predicate that answers true on the
\* elements in f; at most k passes.
RECURSIVE single_retain_loop(_, _, _, _, _)
single_retain_loop(n, prev, cur, f, k) ==
    IF k = 0 \/ cur = NULL THEN n
    ELSE IF containing_record(cur) \in f
         THEN single_retain_loop(n, cur, n[cur], f, k - 1)
         ELSE LET n1 == single_unlink(n, prev, cur)
              IN  single_retain_loop(n1, prev, n1[cur], f, k - 1)

\* NtSingleListHead::retain
single_retain(n, h, f) == single_retain_loop(n, h, n[h], f, Fuel)

\* NtSingleListHead::iter / iter_mut: the iterator is its `current` pointer.
single_iter(n, h) == n[h]

\* Iter::next / IterMut::next of the singly linked list: the iterator afterwards and
\* the element returned.
single_Iter_next(n, cur) ==
    IF cur = NULL
    THEN [i |-> cur, ret |-> NULL]
    ELSE [i |-> n[cur], ret |-> containing_record(cur)]

\* Driving a singly linked list's iterator until it returns None; at most k calls.
RECURSIVE SingleCollect(_, _, _)
SingleCollect(n, cur, k) ==
    LET r == single_Iter_next(n, cur)
    IN  IF k = 0 \/ r.ret = NULL THEN <<>>
        ELSE <<r.ret>> \o SingleCollect(n, r.i, k - 1)

\* `for element in list.iter()`
SingleItems(n, h) == SingleCollect(n, single_iter(n, h), Fuel)

\* NtSingleListHead::len: self.iter().count()
single_len(n, h) == Len(SingleItems(n, h))

\* What the caller can observe of the singly linked list.
SingleSnap(n, h) ==
    [items |-> SingleItems(n, h), len |-> single_len(n, h), empty |-> single_is_empty(n, h)]

\* drop(Box::from_raw(element)) for an element of the singly linked list.
single_dealloc(n, element) == [n EXCEPT ![entry(element)] = NULL]

\* The memory an operation on the singly linked list starts on: the caller has let the
\* Box it got from the previous pop_front go out of scope.
SingleMem ==
    [n \in SingleNodes |->
        IF n \in Entries /\ boxed[containing_record(n)] > 0 THEN NULL ELSE single_next[n]]

\* NtBoxingSingleListHead::push_front
SinglePushFront ==
    /\ Idle /\ live[SingleHead] /\ allocated < MaxElems
    /\ LET element == ElemAddr(allocated + 1)
       IN  /\ single_next' = single_push_front(SingleMem, SingleHead, element)
           /\ lastOp' = Op("push_front", SingleHead, element)
           /\ Seen(SingleHead, "push_front")
           /\ Pushed(SingleHead, element)
    /\ before' = NoSnap
    /\ allocated' = allocated + 1
    /\ ret' = NULL
    /\ UNCHANGED <<flink, blink, boxed, freed, live, pc, self, current, previous, pending,
                   itm, it, fcalls, fwdLog, backLog, met>>

\* NtBoxingSingleListHead::pop_front
SinglePopFront ==
    /\ Idle /\ live[SingleHead]
    /\ LET r == single_pop_front(SingleMem, SingleHead)
       IN  /\ single_next' = r.m
           /\ ret' = r.ret
           /\ boxed' = IF r.ret # NULL THEN Release(boxed, r.ret) ELSE boxed
    /\ LET h == SingleHead
           undo == mode[h] \in {"push_front", "pop_front"} /\ pushed[h] # <<>>
       IN  \* x: the latest element pushed and not popped yet, while the list has seen
           \* nothing but push_front calls followed by pop_front calls
           /\ lastOp' = Op("pop_front", h, IF undo THEN pushed[h][Len(pushed[h])] ELSE NULL)
           /\ mode' = [mode EXCEPT ![h] = IF @ \in {"push_front", "pop_front"}
                                          THEN "pop_front" ELSE "mixed"]
           /\ pushed' = [pushed EXCEPT ![h] = IF undo THEN SubSeq(@, 1, Len(@) - 1) ELSE <<>>]
    /\ before' = NoSnap
    /\ UNCHANGED <<flink, blink, allocated, freed, live, pc, self, current, previous, pending,
                   itm, it, fcalls, fwdLog, backLog, met>>

\* An operation other than push_front and pop_front starts on the singly linked list.
SingleCall(name, x) ==
    /\ self' = SingleHead
    /\ lastOp' = Op(name, SingleHead, x)
    /\ Seen(SingleHead, "mixed")
    /\ pushed' = [pushed EXCEPT ![SingleHead] = <<>>]
    /\ ret' = NULL

\* NtBoxingSingleListHead::clear up to the loop: take `current`, then make the list
\* appear empty.
SingleClearBegin ==
    /\ Idle /\ live[SingleHead]
    /\ current' = SingleMem[SingleHead]
    /\ single_next' = single_clear(SingleMem, SingleHead)
    /\ pc' = "single_clear"
    \* x: how many clear calls in a row this one makes on the list, counted up to 2
    /\ SingleCall("clear", IF lastOp.op = "clear" /\ lastOp.l = SingleHead THEN 2 ELSE 1)
    /\ before' = SingleSnap(SingleMem, SingleHead)
    /\ UNCHANGED <<flink, blink, allocated, boxed, freed, live, previous, pending,
                   itm, it, fcalls, fwdLog, backLog, met>>

\* One pass of clear's `while !current.is_null()` loop.
SingleClearStep ==
    /\ pc = "single_clear"
    /\ current # NULL
    /\ LET element == containing_record(current)
       IN  /\ current' = single_next[current]
           /\ single_next' = single_dealloc(single_next, element)
           /\ freed' = Release(freed, element)
    /\ UNCHANGED <<flink, blink, allocated, boxed, live, pc, self, previous, pending, itm, it,
                   ret, lastOp, before, mode, pushed, fcalls, fwdLog, backLog, met>>

\* clear's loop ends and clear returns.
SingleClearReturn ==
    /\ pc = "single_clear"
    /\ current = NULL
    /\ pc' = "idle"
    /\ self' = NULL
    /\ before' = NoSnap
    /\ UNCHANGED <<flink, blink, single_next, allocated, boxed, freed, live, current, previous,
                   pending, itm, it, ret, lastOp, mode, pushed, fcalls, fwdLog, backLog, met>>

\* NtBoxingSingleListHead::retain up to the loop: `previous` is the header, `current`
\* the first entry.
SingleRetainBegin ==
    /\ Idle /\ live[SingleHead]
    /\ single_next' = SingleMem
    /\ previous' = SingleHead
    /\ current' = SingleMem[SingleHead]
    /\ pc' = "single_retain"
    /\ SingleCall("retain", NULL)
    /\ before' = SingleSnap(SingleMem, SingleHead)
    /\ UNCHANGED <<flink, blink, allocated, boxed, freed, live, pending,
                   itm, it, fcalls, fwdLog, backLog, met>>

\* One pass of retain's `while !current.is_null()` loop: the predicate's answer, then
\* either `previous` moves on or the entry is unlinked and its element dropped.
SingleRetainStep ==
    /\ pc = "single_retain"
    /\ current # NULL
    /\ LET element == containing_record(current)
       IN  \E keep \in BOOLEAN :
             /\ fcalls' = Append(fcalls, <<element, keep>>)
             /\ IF keep
                THEN /\ previous' = current
                     /\ current' = single_next[current]
                     /\ UNCHANGED <<single_next, freed>>
                ELSE /\ single_next' =
                          single_dealloc(single_unlink(single_next, previous, current), element)
                     /\ current' = single_next[current]
                     /\ freed' = Release(freed, element)
                     /\ UNCHANGED previous
    /\ UNCHANGED <<flink, blink, allocated, boxed, live, pc, self, pending, itm, it,
                   ret, lastOp, before, mode, pushed, fwdLog, backLog, met>>

\* retain's loop ends and retain returns.
SingleRetainReturn ==
    /\ pc = "single_retain"
    /\ current = NULL
    /\ pc' = "idle"
    /\ self' = NULL
    /\ previous' = NULL
    /\ before' = NoSnap
    /\ fcalls' = <<>>
    /\ UNCHANGED <<flink, blink, single_next, allocated, boxed, freed, live, current,
                   pending, itm, it, ret, lastOp, mode, pushed, fwdLog, backLog, met>>

\* impl Drop for NtBoxingSingleListHead: `self.iter_mut()`.
SingleDropBegin ==
    /\ Idle /\ live[SingleHead]
    /\ single_next' = SingleMem
    /\ current' = single_iter(SingleMem, SingleHead)
    /\ pc' = "single_drop"
    /\ SingleCall("drop", NULL)
    /\ before' = NoSnap
    /\ UNCHANGED <<flink, blink, allocated, boxed, freed, live, previous, pending,
                   itm, it, fcalls, fwdLog, backLog, met>>

\* One pass of Drop's `for` loop.
SingleDropStep ==
    /\ pc = "single_drop"
    /\ LET r == single_Iter_next(single_next, current)
       IN  /\ r.ret # NULL
           /\ current' = r.i
           /\ single_next' = single_dealloc(single_next, r.ret)
           /\ freed' = Release(freed, r.ret)
    /\ UNCHANGED <<flink, blink, allocated, boxed, live, pc, self, previous, pending, itm, it,
                   ret, lastOp, before, mode, pushed, fcalls, fwdLog, backLog, met>>

\* next() returns None: the header itself goes out of scope.
SingleDropReturn ==
    /\ pc = "single_drop"
    /\ single_Iter_next(single_next, current).ret = NULL
    /\ live' = [live EXCEPT ![self] = FALSE]
    /\ single_next' = [single_next EXCEPT ![self] = NULL]
    /\ pc' = "idle"
    /\ self' = NULL
    /\ UNCHANGED <<flink, blink, allocated, boxed, freed, current, previous, pending, itm, it,
                   ret, lastOp, before, mode, pushed, fcalls, fwdLog, backLog, met>>

\* The owning list: every operation of NtBoxingListHead, and its Drop.
Next ==
    \/ \E h \in Heads : PushBack(h)
    \/ \E h \in Heads : PushFront(h)
    \/ \E h \in Heads : PopBack(h)
    \/ \E h \in Heads : PopFront(h)
    \/ \E s \in Heads : \E other \in Heads : AppendOther(s, other)
    \/ \E h \in Heads : ClearBegin(h)
    \/ ClearStep
    \/ ClearReturn
    \/ \E h \in Heads : RetainBegin(h)
    \/ RetainStep
    \/ RetainReturn
    \/ \E h \in Heads : DropBegin(h)
    \/ DropStep
    \/ DropReturn
    \/ \E h \in Heads : \E n \in 0..MaxElems : ExtendBegin(h, n)
    \/ ExtendStep
    \/ ExtendReturn

Spec == Init /\ [][Next]_vars

\* Lists built by pushes, pops and append, and a caller driving an iterator over one of them.
NextIter ==
    \/ \E h \in Heads : PushBack(h)
    \/ \E h \in Heads : PushFront(h)
    \/ \E h \in Heads : PopBack(h)
    \/ \E h \in Heads : PopFront(h)
    \/ \E s \in Heads : \E other \in Heads : AppendOther(s, other)
    \/ \E h \in Heads : IterNew(h)
    \/ IterNext
    \/ IterNextBack
    \/ IterLast
    \/ IterEnd

SpecIter == Init /\ [][NextIter]_vars

\* The owning singly linked list: every operation of NtBoxingSingleListHead, and its Drop.
NextSingle ==
    \/ SinglePushFront
    \/ SinglePopFront
    \/ SingleClearBegin
    \/ SingleClearStep
    \/ SingleClearReturn
    \/ SingleRetainBegin
    \/ SingleRetainStep
    \/ SingleRetainReturn
    \/ SingleDropBegin
    \/ SingleDropStep
    \/ SingleDropReturn

SpecSingle == InitSingle /\ [][NextSingle]_vars

\* ------------------------------------------------------------------------
\* list_entry::BoxingListHead, the owning list of the list_entry module
\* ------------------------------------------------------------------------

\* ListHead::iter_mut of list_entry/base.rs: a cursor at each end of the ring.
list_entry_iter_mut(m, h) == iter(m, h)

\* IterMut::next of list_entry/base.rs: traversal from the front advances the forward
\* cursor past the entry it returns.
list_entry_next(m, i) == next(m, i)

\* ListEntry::remove of list_entry/base.rs: unsplices the entry from its ring.
list_entry_remove(m, e) == remove(m, e)

\* BoxingListHead::clear is `self.retain(|_| false)`: retain's `self.iter_mut()`.
ListEntryClearBegin(h) ==
    /\ Idle /\ live[h]
    /\ flink' = Mem.f
    /\ blink' = Mem.b
    /\ itm' = list_entry_iter_mut(Mem, h)
    /\ pc' = "list_entry_clear"
    /\ self' = h
    /\ lastOp' = Op("list_entry_clear", h, NULL)
    /\ before' = Snap(Mem, h)
    /\ Seen(h, "mixed")
    /\ pushed' = [pushed EXCEPT ![h] = <<>>]
    /\ ret' = NULL
    /\ UNCHANGED <<single_next, allocated, boxed, freed, live, current, previous, pending, it,
                   fcalls, fwdLog, backLog, met>>

\* One pass of retain's `for` loop with the predicate `|_| false`: the entry is removed
\* and the Box rebuilt from the element is dropped at once.
ListEntryClearStep ==
    /\ pc = "list_entry_clear"
    /\ LET r == list_entry_next(Links, itm)
       IN  /\ r.ret # NULL
           /\ itm' = r.i
           /\ LET m == dealloc(list_entry_remove(Links, entry(r.ret)), r.ret)
              IN  /\ flink' = m.f
                  /\ blink' = m.b
           /\ freed' = Release(freed, r.ret)
    /\ UNCHANGED <<single_next, allocated, boxed, live, pc, self, current, previous, pending, it,
                   ret, lastOp, before, mode, pushed, fcalls, fwdLog, backLog, met>>

\* next() returns None: retain, and with it clear, returns.
ListEntryClearReturn ==
    /\ pc = "list_entry_clear"
    /\ list_entry_next(Links, itm).ret = NULL
    /\ pc' = "idle"
    /\ self' = NULL
    /\ itm' = NoIter
    /\ before' = NoSnap
    /\ UNCHANGED <<single_next, flink, blink, allocated, boxed, freed, live, current, previous,
                   pending, it, ret, lastOp, mode, pushed, fcalls, fwdLog, backLog, met>>

\* Lists of the list_entry module: pushes and pops (the same Box::new / Box::leak and
\* Box::from_raw wrappers as NtBoxingListHead's) and clear.
NextListEntry ==
    \/ \E h \in Heads : PushBack(h)
    \/ \E h \in Heads : PushFront(h)
    \/ \E h \in Heads : PopBack(h)
    \/ \E h \in Heads : PopFront(h)
    \/ \E h \in Heads : ListEntryClearBegin(h)
    \/ ListEntryClearStep
    \/ ListEntryClearReturn

SpecListEntry == Init /\ [][NextListEntry]_vars

\* A program of either kind: two doubly linked lists, or one singly linked list.
NextAll == Next \/ NextSingle

SpecAll == (Init \/ InitSingle) /\ [][NextAll]_vars

\* ------------------------------------------------------------------------
\* Faults: an element's destructor that panics inside clear, a failing allocation
\* ------------------------------------------------------------------------

\* A pass of clear's loop in which the destructor run by `drop(Box::from_raw(element))`
\* panics: the element has been dropped, clear is left by unwinding with the elements
\* behind `current` never visited, and the unwinding drops the list: Drop's
\* `pinned.iter_mut()`.
ClearPanic ==
    /\ pc = "clear"
    /\ current # end_marker(self)
    /\ LET element == containing_record(current)
           m == dealloc(Links, element)
       IN  /\ flink' = m.f
           /\ blink' = m.b
           /\ freed' = Release(freed, element)
           /\ itm' = iter(m, self)
           /\ lastOp' = Op("panic", self, element)
    /\ current' = NULL
    /\ pc' = "drop"
    /\ before' = NoSnap
    /\ UNCHANGED <<single_next, allocated, boxed, live, self, previous, pending, it,
                   ret, mode, pushed, fcalls, fwdLog, backLog, met>>

\* The same in NtBoxingSingleListHead::clear: the unwinding runs Drop's `self.iter_mut()`.
SingleClearPanic ==
    /\ pc = "single_clear"
    /\ current # NULL
    /\ LET element == containing_record(current)
           n == single_dealloc(single_next, element)
       IN  /\ single_next' = n
           /\ freed' = Release(freed, element)
           /\ current' = single_iter(n, self)
           /\ lastOp' = Op("panic", self, element)
    /\ pc' = "single_drop"
    /\ before' = NoSnap
    /\ UNCHANGED <<flink, blink, allocated, boxed, live, self, previous, pending, itm, it,
                   ret, mode, pushed, fcalls, fwdLog, backLog, met>>

\* push_back that points the header and the last entry at the new entry before
\* `Box::new(element)` has returned.
alloc_push_back_LinkFirst(m, h, element) ==
    IF element = NULL
    THEN [f |-> [m.f EXCEPT ![m.b[h]] = entry(element)],
          b |-> [m.b EXCEPT ![h] = entry(element)]]
    ELSE push_back(m, h, element)

\* The links NtBoxingListHead::push_back leaves: `Box::new(element)` comes first and
\* hands back the allocation, or, when the allocation fails (NULL), never returns; only
\* then are links written.
alloc_push_back(m, h, element) ==
    IF element = NULL THEN m ELSE push_back(m, h, element)

\* The same for NtBoxingListHead::push_front.
alloc_push_front(m, h, element) ==
    IF element = NULL THEN m ELSE push_front(m, h, element)

\* The same for NtBoxingSingleListHead::push_front.
alloc_single_push_front(n, h, element) ==
    IF element = NULL THEN n ELSE single_push_front(n, h, element)

\* The allocator has no memory left: handle_alloc_error ends the program.
AllocError(h) ==
    /\ pc' = "abort"
    /\ lastOp' = Op("alloc_error", h, NULL)
    /\ before' = NoSnap
    /\ ret' = NULL
    /\ UNCHANGED <<allocated, boxed, freed, live, self, current, previous, pending, itm, it,
                   mode, pushed, fcalls, fwdLog, backLog, met>>

\* NtBoxingListHead::push_back when Box::new fails.
PushBackAllocError(h) ==
    /\ Idle /\ live[h]
    /\ LET m == alloc_push_back(Mem, h, NULL)
       IN  /\ flink' = m.f
           /\ blink' = m.b
    /\ UNCHANGED single_next
    /\ AllocError(h)

\* NtBoxingListHead::push_front when Box::new fails.
PushFrontAllocError(h) ==
    /\ Idle /\ live[h]
    /\ LET m == alloc_push_front(Mem, h, NULL)
       IN  /\ flink' = m.f
           /\ blink' = m.b
    /\ UNCHANGED single_next
    /\ AllocError(h)

\* NtBoxingSingleListHead::push_front when Box::new fails.
SinglePushFrontAllocError ==
    /\ Idle /\ live[SingleHead]
    /\ single_next' = alloc_single_push_front(SingleMem, SingleHead, NULL)
    /\ UNCHANGED <<flink, blink>>
    /\ AllocError(SingleHead)

\* Every operation of either kind of program, the panics and the failing allocations.
NextFault ==
    \/ NextAll
    \/ ClearPanic
    \/ SingleClearPanic
    \/ \E h \in Heads : PushBackAllocError(h)
    \/ \E h \in Heads : PushFrontAllocError(h)
    \/ SinglePushFrontAllocError

SpecFault == (Init \/ InitSingle) /\ [][NextFault]_vars

\* ------------------------------------------------------------------------
\* Failures inside extend
\* ------------------------------------------------------------------------

\* `iter.into_iter()`'s next() panics while producing an item: extend is left by
\* unwinding, without its final `self.0.blink = previous`, and the unwinding drops the
\* list: Drop's `pinned.iter_mut()`.
\* x: how many items extend had linked before.
ExtendPanic ==
    /\ pc = "extend"
    /\ pending > 0
    /\ itm' = iter(Links, self)
    /\ lastOp' = Op("panic", self, lastOp.x - pending)
    /\ pc' = "drop"
    /\ previous' = NULL
    /\ pending' = 0
    /\ UNCHANGED <<flink, blink, single_next, allocated, boxed, freed, live, self, current, it,
                   ret, before, mode, pushed, fcalls, fwdLog, backLog, met>>

\* `Box::new` of Extend<E>'s `iter.into_iter().map(Box::new)` fails while producing an
\* item: handle_alloc_error ends the program where extend stands.
ExtendAllocError ==
    /\ pc = "extend"
    /\ pending > 0
    /\ UNCHANGED <<flink, blink, single_next>>
    /\ AllocError(self)

\* Lists filled by push_back and extend, with an iterator that may panic and an
\* allocator that may fail, and the Drop that unwinding runs.
NextExtendFault ==
    \/ \E h \in Heads : PushBack(h)
    \/ \E h \in Heads : \E n \in 0..MaxElems : ExtendBegin(h, n)
    \/ ExtendStep
    \/ ExtendReturn
    \/ ExtendPanic
    \/ ExtendAllocError
    \/ DropStep
    \/ DropReturn

SpecExtendFault == Init /\ [][NextExtendFault]_vars

\* ------------------------------------------------------------------------
\* An element type with entry fields for two lists
\* ------------------------------------------------------------------------

\* How many elements with two entry fields a program has.
MaxTwoElems == 2

\* size_of of an element that has a value and two NtListEntry fields,
\* `entry: NtListEntry<Self, MyList>` and `entry_b: NtListEntry<Self, ListB>`.
TwoElemSize == 40

\* <E as NtListElement<ListB>>::offset(): the second entry field follows the first.
offset_B == 24

\* Pinned address of the header of the list tagged ListB; the lists tagged MyList are Heads.
HeadB == 4048

TwoHeads == Heads \cup {HeadB}

\* Addresses of the elements, which their owner keeps alive and in place.
TwoElemAddr(k) == HeadB + k * TwoElemSize

TwoElemAddrs == {TwoElemAddr(k) : k \in 1..MaxTwoElems}

\* An offset() for ListB that names the field of MyList.
entry_B_SameField(element) == entry(element)

\* NtListHead::<E, ListB>::entry: element address -> address of its ListB entry field.
entry_B(element) == element + offset_B

\* The operators above are NtListHead<E, MyList>'s: they reach an entry through MyList's
\* offset(). NtListHead<E, ListB> is the same code with ListB's offset(), that is, the
\* same operators handed the element address displaced by the difference of the two.
in_tag(h, element) == IF h = HeadB THEN containing_record(entry_B(element)) ELSE element

\* Everything that has a flink/blink pair in a program with such elements.
TwoNodes == TwoHeads \cup {entry(a) : a \in TwoElemAddrs} \cup {entry_B(a) : a \in TwoElemAddrs}

\* The loop of NtListHead::retain for a predicate that answers true on the elements in
\* f: the iterator has moved on before the element is removed; at most n passes.
RECURSIVE retain_loop(_, _, _, _)
retain_loop(m, i, f, n) ==
    LET r == next(m, i)
    IN  IF n = 0 \/ r.ret = NULL THEN m
        ELSE retain_loop(IF r.ret \in f THEN m ELSE remove(m, entry(r.ret)), r.i, f, n - 1)

\* retain whose walk starts behind the first element.
retain_SkipFirst(m, h, f) == retain_loop(m, next(m, iter(m, h)).i, f, Fuel)

\* NtListHead::retain
retain(m, h, f) == retain_loop(m, iter(m, h), f, Fuel)

\* The elements linked into a list of h's tag, as that list's code addresses them.
InTag(m, h) ==
    UNION {{Items(m, g)[i] : i \in 1..len(m, g)} :
             g \in IF h = HeadB THEN {HeadB} ELSE Heads}

\* The owner of the elements reinitialises the entry field of every element that an
\* operation on a list of h's tag took out of the list: NtListEntry::new().
reinit(m, h) ==
    LET out == {entry(in_tag(h, a)) : a \in {b \in TwoElemAddrs : in_tag(h, b) \notin InTag(m, h)}}
    IN  [f |-> [n \in DOMAIN m.f |-> IF n \in out THEN NULL ELSE m.f[n]],
         b |-> [n \in DOMAIN m.b |-> IF n \in out THEN NULL ELSE m.b[n]]]

\* NtListHead::new for the three headers; NtListEntry::new for the entries.
InitTwo ==
    /\ flink = [n \in TwoNodes |-> IF n \in TwoHeads THEN n ELSE NULL]
    /\ blink = [n \in TwoNodes |-> IF n \in TwoHeads THEN n ELSE NULL]
    /\ single_next = [n \in SingleNodes |-> NULL]
    /\ live = [h \in AllHeads |-> h \in Heads]
    /\ InitCommon

\* NtListHead::push_back of an element that is in no list of this tag
TwoPushBack(h, a) ==
    /\ in_tag(h, a) \notin InTag(Links, h)
    /\ LET m == push_back(Links, h, in_tag(h, a))
       IN  flink' = m.f /\ blink' = m.b
    /\ lastOp' = Op("push_back", h, NULL)
    /\ UNCHANGED <<single_next, allocated, boxed, freed, live, pc, self, current, previous, pending,
                   itm, it, ret, before, mode, pushed, fcalls, fwdLog, backLog, met>>

\* NtListHead::push_front of an element that is in no list of this tag
TwoPushFront(h, a) ==
    /\ in_tag(h, a) \notin InTag(Links, h)
    /\ LET m == push_front(Links, h, in_tag(h, a))
       IN  flink' = m.f /\ blink' = m.b
    /\ lastOp' = Op("push_front", h, NULL)
    /\ UNCHANGED <<single_next, allocated, boxed, freed, live, pc, self, current, previous, pending,
                   itm, it, ret, before, mode, pushed, fcalls, fwdLog, backLog, met>>

\* NtListHead::pop_back
TwoPopBack(h) ==
    /\ LET m == reinit(pop_back(Links, h).m, h)
       IN  flink' = m.f /\ blink' = m.b
    /\ lastOp' = Op("pop_back", h, NULL)
    /\ UNCHANGED <<single_next, allocated, boxed, freed, live, pc, self, current, previous, pending,
                   itm, it, ret, before, mode, pushed, fcalls, fwdLog, backLog, met>>

\* NtListHead::pop_front
TwoPopFront(h) ==
    /\ LET m == reinit(pop_front(Links, h).m, h)
       IN  flink' = m.f /\ blink' = m.b
    /\ lastOp' = Op("pop_front", h, NULL)
    /\ UNCHANGED <<single_next, allocated, boxed, freed, live, pc, self, current, previous, pending,
                   itm, it, ret, before, mode, pushed, fcalls, fwdLog, backLog, met>>

\* NtListHead::retain with a predicate that answers true on the elements in f.
\* x: how many elements it removed.
TwoRetain(h, f) ==
    /\ LET m == reinit(retain(Links, h, {in_tag(h, a) : a \in f}), h)
       IN  /\ flink' = m.f /\ blink' = m.b
           /\ lastOp' = Op("retain", h, len(Links, h) - len(m, h))
    /\ UNCHANGED <<single_next, allocated, boxed, freed, live, pc, self, current, previous, pending,
                   itm, it, ret, before, mode, pushed, fcalls, fwdLog, backLog, met>>

\* NtListHead::append, on the two lists of one tag
TwoAppend(s, other) ==
    /\ s # other
    /\ LET m == append(Links, s, other)
       IN  flink' = m.f /\ blink' = m.b
    /\ lastOp' = Op("append", s, other)
    /\ UNCHANGED <<single_next, allocated, boxed, freed, live, pc, self, current, previous, pending,
                   itm, it, ret, before, mode, pushed, fcalls, fwdLog, backLog, met>>

\* NtListHead::clear
TwoClear(h) ==
    /\ LET m == reinit(clear(Links, h), h)
       IN  flink' = m.f /\ blink' = m.b
    /\ lastOp' = Op("clear", h, NULL)
    /\ UNCHANGED <<single_next, allocated, boxed, freed, live, pc, self, current, previous, pending,
                   itm, it, ret, before, mode, pushed, fcalls, fwdLog, backLog, met>>

\* A program whose elements are in lists of two tags at once, through the non-owning
\* NtListHead.
NextTwo ==
    \/ \E h \in TwoHeads : \E a \in TwoElemAddrs : TwoPushBack(h, a)
    \/ \E h \in TwoHeads : \E a \in TwoElemAddrs : TwoPushFront(h, a)
    \/ \E h \in TwoHeads : TwoPopBack(h)
    \/ \E h \in TwoHeads : TwoPopFront(h)
    \/ \E h \in TwoHeads : \E f \in SUBSET TwoElemAddrs : TwoRetain(h, f)
    \/ \E s \in Heads : \E other \in Heads : TwoAppend(s, other)
    \/ \E h \in TwoHeads : TwoClear(h)

SpecTwo == InitTwo /\ [][NextTwo]_vars

\* ------------------------------------------------------------------------
\* A program that owns three lists
\* ------------------------------------------------------------------------

\* NtBoxingListHead::new for list1, list2 and list3
InitThree ==
    /\ flink = [n \in Nodes |-> IF n \in ThreeHeads THEN n ELSE NULL]
    /\ blink = [n \in Nodes |-> IF n \in ThreeHeads THEN n ELSE NULL]
    /\ single_next = [n \in SingleNodes |-> NULL]
    /\ live = [h \in AllHeads |-> h \in ThreeHeads]
    /\ InitCommon

\* test_clear_and_append, with any number of calls in any order: elements are pushed
\* onto list1 and list2, either is appended to any other list, list3 is cleared.
NextThree ==
    \/ \E h \in Heads : PushBack(h)
    \/ \E h \in Heads : PushFront(h)
    \/ \E s \in ThreeHeads : \E other \in Heads : AppendOther(s, other)
    \/ ClearBegin(Head3)
    \/ ClearStep
    \/ ClearReturn

SpecThree == InitThree /\ [][NextThree]_vars

\* ------------------------------------------------------------------------
\* #[derive(NtListElement)]
\* ------------------------------------------------------------------------

\* The longest struct the derive is run on.
MaxFields == 3

\* A field of the input as the derive looks at it: the last segment of its type path
\* and whether `#[boxed]` is placed before it.
DeriveFields == [ty : {"NtListEntry", "NtSingleListEntry", "i32"}, boxed : BOOLEAN]

\* The inputs of the derive: struct or enum, named or unnamed fields, with or without
\* #[repr(C)], and the fields.
DeriveInputs ==
    [data : {"struct", "enum"}, named : BOOLEAN, repr_c : BOOLEAN,
     fields : UNION {[1..n -> DeriveFields] : n \in 0..MaxFields}]

\* parse_element_field: Some(info) for NtListEntry / NtSingleListEntry fields.
parse_element_field(field) == field.ty \in {"NtListEntry", "NtSingleListEntry"}

\* The filter_map over the named fields: how many `impl NtListElement` and
\* `impl NtBoxedListElement` blocks are generated, and boxed_attrs.
RECURSIVE derive_tokens(_)
derive_tokens(fields) ==
    IF fields = <<>> THEN [NtListElement |-> 0, NtBoxedListElement |-> 0, boxed_attrs |-> 0]
    ELSE LET t == derive_tokens(Tail(fields))
             field == Head(fields)
         IN  IF parse_element_field(field)
             THEN [NtListElement      |-> t.NtListElement + 1,
                   NtBoxedListElement |-> t.NtBoxedListElement + (IF field.boxed THEN 1 ELSE 0),
                   boxed_attrs        |-> t.boxed_attrs + (IF field.boxed THEN 1 ELSE 0)]
             ELSE t

DeriveErr(msg) == [err |-> msg, NtListElement |-> 0, NtBoxedListElement |-> 0]

\* derive_list_struct_trait without the `boxed_attrs > 1` test.
derive_list_struct_trait_NoBoxedTest(input) ==
    IF input.data # "struct" THEN DeriveErr("NtListElement can only be derived for structs")
    ELSE IF ~input.named
    THEN DeriveErr("NtListElement can only be derived for structs with named fields")
    ELSE IF ~input.repr_c
    THEN DeriveErr("NtListElement can only be derived for structs with #[repr(C)]")
    ELSE LET t == derive_tokens(input.fields)
         IN  IF t.NtListElement = 0
             THEN DeriveErr("Found no NtListEntry/NtSingleListEntry fields")
             ELSE [err |-> "", NtListElement |-> t.NtListElement,
                   NtBoxedListElement |-> t.NtBoxedListElement]

\* derive_list_struct_trait: the error, or how many impl blocks of each trait the
\* output holds.
derive_list_struct_trait(input) ==
    IF input.data # "struct" THEN DeriveErr("NtListElement can only be derived for structs")
    ELSE IF ~input.named
    THEN DeriveErr("NtListElement can only be derived for structs with named fields")
    ELSE IF ~input.repr_c
    THEN DeriveErr("NtListElement can only be derived for structs with #[repr(C)]")
    ELSE LET t == derive_tokens(input.fields)
         IN  IF t.NtListElement = 0
             THEN DeriveErr("Found no NtListEntry/NtSingleListEntry fields")
             ELSE IF t.boxed_attrs > 1
             THEN DeriveErr("Only a single entry field may have a #[boxed] attribute")
             ELSE [err |-> "", NtListElement |-> t.NtListElement,
                   NtBoxedListElement |-> t.NtBoxedListElement]

\* The compiler expands #[derive(NtListElement)] on the program's element type, once.
Derive(input) ==
    /\ lastOp = NoOp
    /\ lastOp' = Op("derive", input, NULL)
    /\ ret' = derive_list_struct_trait(input)
    /\ UNCHANGED <<flink, blink, single_next, allocated, boxed, freed, live, pc, self, current, previous,
                   pending, itm, it, before, mode, pushed, fcalls, fwdLog, backLog, met>>

NextDerive == \E input \in DeriveInputs : Derive(input)

SpecDerive == Init /\ [][NextDerive]_vars

\* ------------------------------------------------------------------------
\* Properties
\* ------------------------------------------------------------------------

\* The links after a step.
LinksAfter == [f |-> flink', b |-> blink']

Allocated == {ElemAddr(k) : k \in 1..allocated}

\* The elements linked into list h.
Linked(h) == {Elements(Links, h)[i] : i \in 1..Len(Elements(Links, h))}

\* How often the element has been released, by either way.
Released(a) == boxed[a] + freed[a]

Range(q) == {q[i] : i \in 1..Len(q)}

\* C1: whenever no operation is in progress, every node of every list's ring (the header
\* and each linked entry) has flink.blink and blink.flink pointing back at itself, and
\* the flink walk from the header is the reverse of the blink walk.
C1_LinkConsistency ==
    pc = "idle" => \A h \in Heads : live[h] => LinkConsistent(Links, h)

C1_Witness ==
    /\ pc = "idle"
    /\ lastOp.op = "retain"
    /\ \E h \in Heads : live[h] /\ Len(forward_entries(Links, h)) = 2
    /\ \E a \in ElemAddrs : freed[a] = 1

\* C2: no element is ever released twice or both ways, none is released before it is
\* allocated; between operations the elements not yet released are exactly those linked
\* into a list that still exists, and once every list is dropped each allocated element
\* has been released exactly once.
C2_ReleasedExactlyOnce ==
    /\ \A a \in ElemAddrs : Released(a) <= 1
    /\ \A a \in ElemAddrs \ Allocated : Released(a) = 0
    /\ pc = "idle" =>
          \A a \in Allocated :
             (Released(a) = 0) <=> (\E h \in Heads : live[h] /\ a \in Linked(h))
    /\ (pc = "idle" /\ \A h \in Heads : ~live[h]) =>
          \A a \in Allocated : Released(a) = 1

C2_Witness ==
    /\ pc = "idle"
    /\ \A h \in Heads : ~live[h]
    /\ allocated = MaxElems
    /\ \E a \in ElemAddrs : boxed[a] = 1
    /\ \E a \in ElemAddrs : freed[a] = 1

\* C3: all through the loop of NtBoxingListHead::clear the list is_empty(), and when the
\* loop is over every element the list held before the call has been deallocated.
C3_ClearEmptiesFirst ==
    pc = "clear" =>
        /\ is_empty(Links, self)
        /\ current = end_marker(self) =>
              \A a \in Range(before.items) : freed[a] = 1

C3_Witness ==
    /\ pc = "clear"
    /\ current = end_marker(self)
    /\ before.len >= 2
    /\ \A a \in Range(before.items) : freed[a] = 1

\* C4: a list that has seen nothing but push_back since new() iterates in push order, one
\* that has seen nothing but push_front iterates in reverse push order, and len() is the
\* number of pushes.
C4_PushOrder ==
    \A h \in Heads :
        /\ mode[h] = "push_back" =>
              Items(Links, h) = pushed[h] /\ len(Links, h) = Len(pushed[h])
        /\ mode[h] = "push_front" =>
              Items(Links, h) = Reverse(pushed[h]) /\ len(Links, h) = Len(pushed[h])

C4_Witness ==
    \E h \in Heads : mode[h] = "push_front" /\ Len(pushed[h]) = MaxElems

\* C5: on a non-empty list pop_front returns what front() returned before the call and
\* pop_back what back() returned; len() goes down by one and the other elements keep
\* their order.
C5_PopReturnsEnd ==
    [][\A h \in Heads :
         /\ (PopFront(h) /\ ~is_empty(Links, h)) =>
               /\ ret' = front(Links, h)
               /\ len(LinksAfter, h) = len(Links, h) - 1
               /\ Items(LinksAfter, h) = Tail(Items(Links, h))
         /\ (PopBack(h) /\ ~is_empty(Links, h)) =>
               /\ ret' = back(Links, h)
               /\ len(LinksAfter, h) = len(Links, h) - 1
               /\ Items(LinksAfter, h) = SubSeq(Items(Links, h), 1, len(Links, h) - 1)
      ]_vars

C5_Witness ==
    /\ lastOp.op = "pop_front"
    /\ ret # NULL
    /\ boxed[ret] = 1
    /\ len(Links, lastOp.l) = 2

\* C6: append of a non-empty other puts other's elements behind self's in order, leaves
\* other empty with len() 0, and both rings link-consistent; self may be empty.
C6_Append ==
    [][\A s \in Heads : \A other \in Heads :
         (AppendOther(s, other) /\ ~is_empty(Links, other)) =>
            /\ Items(LinksAfter, s) = Items(Links, s) \o Items(Links, other)
            /\ len(LinksAfter, s) = len(Links, s) + len(Links, other)
            /\ len(LinksAfter, other) = 0
            /\ is_empty(LinksAfter, other)
            /\ LinkConsistent(LinksAfter, s)
            /\ LinkConsistent(LinksAfter, other)
      ]_vars

C6_Witness ==
    /\ lastOp.op = "append"
    /\ before.len = 1
    /\ len(Links, lastOp.l) = 3
    /\ is_empty(Links, lastOp.x)

\* The elements of the calls of retain's predicate, and those it answered true for.
Called == [i \in 1..Len(fcalls) |-> fcalls[i][1]]

IsKept(c) == c[2]

Kept == LET k == SelectSeq(fcalls, IsKept) IN [i \in 1..Len(k) |-> k[i][1]]

\* C7: retain calls its predicate on the elements in their original order, each once,
\* and when its loop is over the list holds exactly the elements the predicate answered
\* true for, in their original order, and is link-consistent.
C7_Retain ==
    pc = "retain" =>
        /\ Called = SubSeq(before.items, 1, Len(fcalls))
        /\ next(Links, itm).ret = NULL =>
              /\ Called = before.items
              /\ Items(Links, self) = Kept
              /\ Elements(Links, self) = Kept
              /\ LinkConsistent(Links, self)

C7_Witness ==
    /\ pc = "retain"
    /\ next(Links, itm).ret = NULL
    /\ Len(fcalls) = 3
    /\ ~fcalls[1][2] /\ fcalls[2][2] /\ ~fcalls[3][2]

\* Neither end of the caller's iterator has anything left to return.
Exhausted == next(Links, it).ret = NULL /\ next_back(Links, it).ret = NULL

IsPrefix(p, q) == Len(p) <= Len(q) /\ p = SubSeq(q, 1, Len(p))

\* C8: however next() and next_back() are interleaved, what next() has returned is a
\* prefix of the list, what next_back() has returned is a prefix of the reversed list,
\* once either call returns None so does the other, and by then the two together are
\* the whole list, each element once.
C8_DoubleEnded ==
    it # NoIter =>
        /\ IsPrefix(fwdLog, Elements(Links, it.head))
        /\ IsPrefix(backLog, Reverse(Elements(Links, it.head)))
        /\ Len(fwdLog) + Len(backLog) <= Len(Elements(Links, it.head))
        /\ (next(Links, it).ret = NULL \/ next_back(Links, it).ret = NULL) =>
              /\ Exhausted
              /\ fwdLog \o Reverse(backLog) = Elements(Links, it.head)

C8_Witness ==
    /\ it # NoIter
    /\ Exhausted
    /\ Len(fwdLog) = 1
    /\ Len(backLog) = 2
    /\ lastOp.op = "next"

\* C9: once a call has returned the element at which the two cursors coincided, both
\* cursors are the header address and next() and next_back() return None.
C9_Fused ==
    met =>
        /\ it.flink = it.head
        /\ it.blink = it.head
        /\ next(Links, it) = [i |-> it, ret |-> NULL]
        /\ next_back(Links, it) = [i |-> it, ret |-> NULL]

C9_Witness ==
    /\ met
    /\ lastOp.op = "next_back"
    /\ ret = NULL
    /\ Len(fwdLog) = 2
    /\ Len(backLog) = 1

\* C10: a pop_back right after push_back(x) on the same list returns x and leaves the
\* list with the iteration order, len() and is_empty() it had before the push.
C10_PushPopBack ==
    (lastOp.op = "pop_back" /\ lastOp.x # NULL) =>
        /\ ret = lastOp.x
        /\ Snap(Links, lastOp.l) = before

C10_Witness ==
    /\ lastOp.op = "pop_back"
    /\ lastOp.x # NULL
    /\ ret = lastOp.x
    /\ before.len = 2

\* C11: a clear() called right after a clear() of the same list finds the list empty,
\* writes the header's links to the values they already have, leaves every other link
\* and every deallocation count alone and has nothing to deallocate; no deallocating
\* pass of clear's loop belongs to such a call.  This holds for the doubly linked list,
\* owning or not, and for the singly linked list, owning or not.
C11_ClearIdempotent ==
    [][/\ \A h \in Heads :
            /\ clear(clear(Links, h), h) = clear(Links, h)
            /\ (ClearBegin(h) /\ lastOp.op = "clear" /\ lastOp.l = h) =>
                  /\ LinksAfter = Links
                  /\ flink'[h] = end_marker(h) /\ blink'[h] = end_marker(h)
                  /\ current' = end_marker(h)
                  /\ before'.empty /\ before'.len = 0
                  /\ freed' = freed
       /\ single_clear(single_clear(single_next, SingleHead), SingleHead)
             = single_clear(single_next, SingleHead)
       /\ (SingleClearBegin /\ lastOp.op = "clear" /\ lastOp.l = SingleHead) =>
             /\ single_next' = single_next
             /\ single_is_empty(single_next', SingleHead)
             /\ current' = NULL
             /\ before'.empty /\ before'.len = 0
             /\ freed' = freed
       /\ (ClearStep \/ SingleClearStep) => (lastOp.x = 1 /\ ~before.empty)
      ]_vars

\* The second of two clear calls in a row has returned, on a doubly linked list from
\* which the first call deallocated two elements.
C11_Witness ==
    /\ pc = "idle"
    /\ lastOp.op = "clear"
    /\ lastOp.x = 2
    /\ lastOp.l \in Heads
    /\ Cardinality({a \in ElemAddrs : freed[a] = 1}) >= 2
    /\ is_empty(Links, lastOp.l)

\* C12: append of an empty other returns at once: the memory after the call is the
\* memory the call started on, link for link, for self's header, other's header and
\* every entry, whether self is empty or not; nothing is allocated or released.
C12_AppendEmptyOther ==
    [][\A s \in Heads : \A other \in Heads \ {s} :
         /\ is_empty(Links, other) => append(Links, s, other) = Links
         /\ (AppendOther(s, other) /\ is_empty(Mem, other)) =>
               /\ LinksAfter = Mem
               /\ Snap(LinksAfter, s) = Snap(Mem, s)
               /\ is_empty(LinksAfter, other)
               /\ UNCHANGED <<allocated, boxed, freed>>
      ]_vars

\* append has returned, other was empty and self holds the two elements it held before.
C12_Witness ==
    /\ lastOp.op = "append"
    /\ before.len = 2
    /\ Snap(Links, lastOp.l) = before
    /\ is_empty(Links, lastOp.x)

\* C13: on an empty doubly linked list front, back, pop_front and pop_back return None,
\* on an empty singly linked list front and pop_front return None (front_mut and back_mut
\* are front and back); a pop of an empty list leaves every link as it was, releases
\* nothing, and the list is still empty afterwards.
C13_EmptyReturnsNone ==
    [][/\ \A h \in Heads :
            /\ is_empty(Links, h) =>
                  /\ front(Links, h) = NULL
                  /\ back(Links, h) = NULL
                  /\ pop_front(Links, h) = [m |-> Links, ret |-> NULL]
                  /\ pop_back(Links, h) = [m |-> Links, ret |-> NULL]
            /\ ((PopFront(h) \/ PopBack(h)) /\ is_empty(Mem, h)) =>
                  /\ ret' = NULL
                  /\ LinksAfter = Mem
                  /\ is_empty(LinksAfter, h)
                  /\ UNCHANGED <<single_next, allocated, boxed, freed>>
       /\ single_is_empty(single_next, SingleHead) =>
             /\ single_front(single_next, SingleHead) = NULL
             /\ single_pop_front(single_next, SingleHead) = [m |-> single_next, ret |-> NULL]
       /\ (SinglePopFront /\ single_is_empty(SingleMem, SingleHead)) =>
             /\ ret' = NULL
             /\ single_next' = SingleMem
             /\ single_is_empty(single_next', SingleHead)
             /\ UNCHANGED <<flink, blink, allocated, boxed, freed>>
      ]_vars

\* pop_back has returned None on a list that pops had emptied before.
C13_Witness ==
    /\ lastOp.op = "pop_back"
    /\ ret = NULL
    /\ live[lastOp.l]
    /\ is_empty(Links, lastOp.l)
    /\ front(Links, lastOp.l) = NULL
    /\ \E a \in ElemAddrs : boxed[a] = 1

\* C14: a singly linked owning list that has seen nothing but push_front of x1..xn since
\* new() has len() n, front() xn and iterates xn..x1; while it then sees nothing but
\* pop_front, each call returns the latest element pushed and not yet popped, the rest
\* still iterates in reverse push order, and after the n-th call is_empty() holds.
C14_SinglePushPop ==
    LET h == SingleHead
        n == single_next
    IN  /\ mode[h] = "push_front" =>
              /\ single_len(n, h) = Len(pushed[h])
              /\ single_front(n, h) = pushed[h][Len(pushed[h])]
              /\ SingleItems(n, h) = Reverse(pushed[h])
              /\ ~single_is_empty(n, h)
        /\ mode[h] = "pop_front" =>
              /\ ret = lastOp.x
              /\ SingleItems(n, h) = Reverse(pushed[h])
              /\ single_len(n, h) = Len(pushed[h])
              /\ single_is_empty(n, h) <=> pushed[h] = <<>>

\* MaxElems calls of push_front, then as many of pop_front: the last one has returned
\* the first element pushed and the list is empty.
C14_Witness ==
    /\ mode[SingleHead] = "pop_front"
    /\ allocated = MaxElems
    /\ \A a \in ElemAddrs : boxed[a] = 1
    /\ ret = ElemAddr(1)
    /\ single_is_empty(single_next, SingleHead)

\* The chain from the header ends in a null `next`.
NullTerminated(n, h) ==
    LET q == SingleItems(n, h)
    IN  /\ Len(q) < Fuel
        /\ n[IF q = <<>> THEN h ELSE entry(q[Len(q)])] = NULL

\* C15: retain of the singly linked list calls its predicate on the elements in chain
\* order, each once, in one pass; when its loop is over the chain from the header holds
\* exactly the elements the predicate answered true for, in their original order, and is
\* null-terminated.  The retain of the list that does not own its elements leaves the
\* same chain for every predicate.
C15_SingleRetain ==
    LET h == SingleHead
    IN  /\ pc = "single_retain" =>
              /\ Called = SubSeq(before.items, 1, Len(fcalls))
              /\ Cardinality(Range(Called)) = Len(Called)
              /\ current = NULL =>
                    /\ Called = before.items
                    /\ SingleItems(single_next, h) = Kept
                    /\ NullTerminated(single_next, h)
        /\ \A f \in SUBSET ElemAddrs :
              LET IsIn(a) == a \in f
                  n == single_retain(single_next, h, f)
              IN  /\ SingleItems(n, h) = SelectSeq(SingleItems(single_next, h), IsIn)
                  /\ NullTerminated(n, h)

\* retain's loop is over: the predicate kept the first of three elements and rejected
\* the two behind it, the last of the chain among them.
C15_Witness ==
    /\ pc = "single_retain"
    /\ current = NULL
    /\ Len(fcalls) = 3
    /\ fcalls[1][2] /\ ~fcalls[2][2] /\ ~fcalls[3][2]
    /\ single_len(single_next, SingleHead) = 1

\* The elements linked into the singly linked list.
SingleLinked == Range(SingleItems(single_next, SingleHead))

\* C16: no element of the owning singly linked list is ever released twice or both ways
\* (handed out by pop_front, deallocated by retain, clear or Drop), none is released
\* before push_front allocated it; between operations the elements not yet released are
\* exactly those linked into the list while it exists, and once the list is dropped
\* every allocated element has been released exactly once.
C16_SingleReleasedExactlyOnce ==
    /\ \A a \in ElemAddrs : Released(a) <= 1
    /\ \A a \in ElemAddrs \ Allocated : Released(a) = 0
    /\ pc = "idle" =>
          \A a \in Allocated :
             (Released(a) = 0) <=> (live[SingleHead] /\ a \in SingleLinked)
    /\ (pc = "idle" /\ ~live[SingleHead]) =>
          \A a \in Allocated : Released(a) = 1

\* The list has been dropped after MaxElems pushes; one element left through pop_front,
\* the others were deallocated.
C16_Witness ==
    /\ pc = "idle"
    /\ ~live[SingleHead]
    /\ lastOp.op = "drop"
    /\ allocated = MaxElems
    /\ Cardinality({a \in ElemAddrs : boxed[a] = 1}) = 1
    /\ Cardinality({a \in ElemAddrs : freed[a] = 1}) = MaxElems - 1

\* C17: all through the loop of NtBoxingSingleListHead::clear the header's next is null,
\* so is_empty() holds before and after every deallocation, and when the loop is over
\* every element the list held before the call has been deallocated, each once.
C17_SingleClearEmptiesFirst ==
    pc = "single_clear" =>
        /\ single_next[self] = NULL
        /\ single_is_empty(single_next, self)
        /\ current = NULL =>
              \A a \in Range(before.items) : freed[a] = 1

\* clear's loop is over after deallocating the three elements the list held.
C17_Witness ==
    /\ pc = "single_clear"
    /\ current = NULL
    /\ before.len = 3
    /\ \A a \in Range(before.items) : freed[a] = 1
    /\ single_is_empty(single_next, self)

\* C18: once clear of list_entry's BoxingListHead has deallocated an element, so at
\* every deallocation inside clear, is_empty() holds for the list.
C18_ListEntryClearEmptiesFirst ==
    (pc = "list_entry_clear" /\ \E a \in Range(before.items) : freed[a] = 1) =>
        is_empty(Links, self)

\* C19: when an element's destructor panics inside clear of the owning doubly or singly
\* linked list, the Drop handler the unwinding runs on that list finds the list empty,
\* its iterator yields nothing, so it deallocates nothing; the element whose destructor
\* panicked has been dropped once, and no element is ever dropped twice.
C19_PanicInClear ==
    /\ \A a \in ElemAddrs : Released(a) <= 1
    /\ (lastOp.op = "panic" /\ pc = "drop") =>
          /\ is_empty(Links, self)
          /\ next(Links, itm).ret = NULL
          /\ freed[lastOp.x] = 1
    /\ (lastOp.op = "panic" /\ pc = "single_drop") =>
          /\ single_is_empty(single_next, self)
          /\ single_Iter_next(single_next, current).ret = NULL
          /\ freed[lastOp.x] = 1

\* Unwinding has dropped a doubly linked list after a panic in the first pass of a
\* clear of two or more elements: one element was dropped, the others never visited.
C19_Witness ==
    /\ lastOp.op = "panic"
    /\ lastOp.l \in Heads
    /\ pc = "idle"
    /\ ~live[lastOp.l]
    /\ freed[lastOp.x] = 1
    /\ \E a \in Allocated : Released(a) = 0 /\ \A h \in Heads : a \notin Linked(h)

\* C20: a push_back or push_front of the owning doubly linked list, or a push_front of
\* the owning singly linked list, whose allocation fails leaves every link of every
\* header and entry as the call found it, and the list with the same elements, len()
\* and is_empty(); a push that succeeds links the entry of the element this very call
\* allocated.
C20_AllocBeforeLink ==
    [][/\ \A h \in Heads :
            /\ (PushBackAllocError(h) \/ PushFrontAllocError(h)) =>
                  /\ LinksAfter = Mem
                  /\ Snap(LinksAfter, h) = Snap(Mem, h)
                  /\ LinkConsistent(LinksAfter, h)
                  /\ UNCHANGED <<single_next, allocated, boxed, freed>>
            /\ PushBack(h) =>
                  allocated' = allocated + 1 /\ back(LinksAfter, h) = ElemAddr(allocated')
            /\ PushFront(h) =>
                  allocated' = allocated + 1 /\ front(LinksAfter, h) = ElemAddr(allocated')
       /\ SinglePushFrontAllocError =>
             /\ single_next' = SingleMem
             /\ SingleSnap(single_next', SingleHead) = SingleSnap(SingleMem, SingleHead)
             /\ UNCHANGED <<flink, blink, allocated, boxed, freed>>
       /\ SinglePushFront =>
             /\ allocated' = allocated + 1
             /\ single_front(single_next', SingleHead) = ElemAddr(allocated')
      ]_vars

\* The program has ended in a failed allocation of a push onto a doubly linked list
\* that holds two elements.
C20_Witness ==
    /\ pc = "abort"
    /\ lastOp.op = "alloc_error"
    /\ lastOp.l \in Heads
    /\ allocated = 2
    /\ len(Links, lastOp.l) = 2
    /\ LinkConsistent(Links, lastOp.l)

\* The elements boxed by the extend call that is about to return, in iterator order.
Extended == [i \in 1..lastOp.x |-> ElemAddr(allocated - lastOp.x + i)]

\* C21: when extend returns, the list holds the elements it held at the call, in place
\* and in order, followed by the iterator's items in iterator order; the ring is
\* link-consistent and the header's blink is the entry of the last item appended.  An
\* extend with an empty iterator leaves every link as the call found it.
C21_Extend ==
    [][/\ ExtendReturn =>
            /\ Items(LinksAfter, self) = before.items \o Extended
            /\ Elements(LinksAfter, self) = before.items \o Extended
            /\ len(LinksAfter, self) = before.len + lastOp.x
            /\ LinkConsistent(LinksAfter, self)
            /\ lastOp.x > 0 => blink'[self] = entry(Extended[lastOp.x])
            /\ lastOp.x = 0 => LinksAfter = Links
       /\ \A h \in Heads : ExtendBegin(h, 0) => LinksAfter = Mem
      ]_vars

\* extend has returned after appending two items behind the one element the list held.
C21_Witness ==
    /\ pc = "idle"
    /\ lastOp.op = "extend"
    /\ lastOp.x = 2
    /\ allocated = 3
    /\ Items(Links, lastOp.l) = <<ElemAddr(1), ElemAddr(2), ElemAddr(3)>>
    /\ blink[lastOp.l] = entry(ElemAddr(3))

\* The node reached from n by following flink k times.
RECURSIVE FlinkSteps(_, _, _)
FlinkSteps(m, n, k) ==
    IF k = 0 \/ n \notin Nodes THEN n ELSE FlinkSteps(m, m.f[n], k - 1)

C23_EmptyHeaderState ==
    pc = "idle" =>
        \A h \in Heads : live[h] =>
            /\ is_empty(Links, h) <=> flink[h] = h
            /\ is_empty(Links, h) <=> blink[h] = h
            /\ is_empty(Links, h) <=> len(Links, h) = 0
            /\ is_empty(Links, h) => Snap(Links, h) = NoSnap

\* A list that held two elements has been appended to the other list and is empty,
\* both header links pointing at the header.
C23_Witness ==
    /\ pc = "idle"
    /\ lastOp.op = "append"
    /\ len(Links, lastOp.l) - before.len = 2
    /\ is_empty(Links, lastOp.x)
    /\ flink[lastOp.x] = lastOp.x
    /\ blink[lastOp.x] = lastOp.x

\* C24: NtListHead::clear and NtSingleListHead::clear write the header's own link fields
\* and nothing else: on every reachable memory the fields of every entry and of the
\* other header are as before, and the step of the owning clear that calls them leaves
\* every formerly linked entry's fields in place and deallocates nothing.
C24_ClearWritesHeaderOnly ==
    [][/\ \A h \in Heads :
            /\ \A n \in Nodes \ {h} :
                  clear(Links, h).f[n] = flink[n] /\ clear(Links, h).b[n] = blink[n]
            /\ ClearBegin(h) =>
                  /\ \A n \in Nodes \ {h} : flink'[n] = Mem.f[n] /\ blink'[n] = Mem.b[n]
                  /\ UNCHANGED <<single_next, allocated, boxed, freed>>
       /\ \A n \in SingleNodes \ {SingleHead} :
             single_clear(single_next, SingleHead)[n] = single_next[n]
       /\ SingleClearBegin =>
             /\ \A n \in SingleNodes \ {SingleHead} : single_next'[n] = SingleMem[n]
             /\ UNCHANGED <<flink, blink, allocated, boxed, freed>>
      ]_vars

\* The header of a list of two elements has just been reset: both entries are still
\* allocated and still linked to each other.
C24_Witness ==
    /\ pc = "clear"
    /\ before.len = 2
    /\ is_empty(Links, self)
    /\ \A a \in Range(before.items) : freed[a] = 0
    /\ current = entry(before.items[1])
    /\ flink[current] = entry(before.items[2])
    /\ blink[flink[current]] = current

\* C25: append with a non-empty `other` writes exactly six links: the flink of self's old
\* last node (self's header when self is empty), the blink of other's first entry, the
\* flink of other's last entry, self's header blink, other's header flink and blink.
\* Every other link of every node is as before, and no element is allocated, freed or
\* moved.
C25_AppendFrame ==
    [][\A s, other \in Heads :
         (AppendOther(s, other) /\ ~is_empty(Mem, other)) =>
            /\ \A n \in Nodes \ {Mem.b[s], Mem.b[other], other} : flink'[n] = Mem.f[n]
            /\ \A n \in Nodes \ {Mem.f[other], s, other} : blink'[n] = Mem.b[n]
            /\ flink'[Mem.b[s]] = Mem.f[other]
            /\ blink'[Mem.f[other]] = Mem.b[s]
            /\ flink'[Mem.b[other]] = end_marker(s)
            /\ blink'[s] = Mem.b[other]
            /\ flink'[other] = end_marker(other) /\ blink'[other] = end_marker(other)
            /\ UNCHANGED <<single_next, allocated, boxed, freed, live>>
      ]_vars

\* A list of two elements has been appended to a list of one element: the blink of
\* self's old last entry and the links between other's two entries are the old ones.
C25_Witness ==
    /\ pc = "idle"
    /\ lastOp.op = "append"
    /\ before.len = 1
    /\ len(Links, lastOp.l) = 3
    /\ blink[entry(before.items[1])] = lastOp.l
    /\ LET is == Items(Links, lastOp.l)
       IN  /\ flink[entry(is[2])] = entry(is[3])
           /\ blink[entry(is[3])] = entry(is[2])

\* C26: in every state of an iterator (fresh, or consumed from the front, the back or
\* both) last() returns the element that next() called until exhaustion would return
\* last, or None when the iterator is exhausted; what it returns is the element at the
\* back cursor, and it changes no link.
C26_LastIsLastOfNext ==
    [][IterLast =>
         LET rest == Collect(Links, it, Fuel)
         IN  /\ ret' = (IF rest = <<>> THEN NULL ELSE rest[Len(rest)])
             /\ (rest # <<>>) => ret' = containing_record(it.blink)
             /\ (rest = <<>>) <=> (Len(fwdLog) + Len(backLog) = before.len)
             /\ UNCHANGED <<flink, blink>>
      ]_vars

\* last() was called on an iterator over three elements that had yielded the first one:
\* it returned the third.
C26_Witness ==
    /\ pc = "idle"
    /\ lastOp.op = "last"
    /\ lastOp.x = 1
    /\ before.len = 3
    /\ ret = before.items[3]

\* C27: iterating a list with next_back() only yields the reverse of what iterating it
\* with next() only yields, both sequences have len() elements, front() is the first and
\* back() the last element of the forward sequence (None on the empty list). Stated for
\* every list between operations, and for the iterators the caller has driven from one
\* end only until None.
C27_BackwardIsReverse ==
    /\ Idle =>
          \A h \in Heads : live[h] =>
             LET fwd == Collect(Links, iter(Links, h), Fuel)
                 bwd == CollectBack(Links, iter(Links, h), Fuel)
             IN  /\ bwd = Reverse(fwd)
                 /\ Len(fwd) = len(Links, h) /\ Len(bwd) = len(Links, h)
                 /\ front(Links, h) = (IF fwd = <<>> THEN NULL ELSE fwd[1])
                 /\ back(Links, h) = (IF fwd = <<>> THEN NULL ELSE fwd[Len(fwd)])
    /\ (it # NoIter /\ Exhausted /\ fwdLog = <<>>) =>
          /\ backLog = Reverse(before.items)
          /\ Len(backLog) = len(Links, it.head)
    /\ (it # NoIter /\ Exhausted /\ backLog = <<>>) =>
          /\ fwdLog = before.items
          /\ Len(fwdLog) = len(Links, it.head)

\* A list of three elements that are not in allocation order has been iterated with
\* next_back() only, until None.
C27_Witness ==
    /\ it # NoIter
    /\ Exhausted
    /\ lastOp.op = "next_back"
    /\ ret = NULL
    /\ fwdLog = <<>>
    /\ Len(backLog) = 3
    /\ backLog[1] = back(Links, it.head)
    /\ backLog[3] = front(Links, it.head)
    /\ backLog[3] # ElemAddr(1)
    /\ backLog[1] # ElemAddr(3)

\* C28: retain unlinks a rejected element before it deallocates it. In the memory that
\* drop(Box::from_raw(element)) finds, the element's entry is on neither the forward nor
\* the backward walk from the header and the list is link-consistent (null-terminated,
\* for the singly linked list); the deallocation then changes nothing but the element's
\* own storage, so the same holds right after it.
C28_RetainUnlinksBeforeDealloc ==
    [][/\ (RetainStep /\ freed' # freed) =>
            LET element == next(Links, itm).ret
                m == remove(Links, entry(element))
            IN  /\ entry(element) \notin Range(forward_entries(m, self))
                /\ entry(element) \notin Range(backward_entries(m, self))
                /\ LinkConsistent(m, self)
                /\ freed[element] = 0 /\ freed'[element] = 1
                /\ LinksAfter = dealloc(m, element)
                /\ element \notin Range(Items(LinksAfter, self))
                /\ LinkConsistent(LinksAfter, self)
       /\ (SingleRetainStep /\ freed' # freed) =>
            LET element == containing_record(current)
                n == single_unlink(single_next, previous, current)
            IN  /\ element \notin Range(SingleItems(n, SingleHead))
                /\ NullTerminated(n, SingleHead)
                /\ freed[element] = 0 /\ freed'[element] = 1
                /\ single_next' = single_dealloc(n, element)
                /\ element \notin Range(SingleItems(single_next', SingleHead))
                /\ NullTerminated(single_next', SingleHead)
      ]_vars

\* retain on a list of three elements has kept the first and just deallocated the
\* second: the list is the first and the third element.
C28_Witness ==
    /\ pc = "retain"
    /\ before.len = 3
    /\ Len(fcalls) = 2
    /\ fcalls[1][2] /\ ~fcalls[2][2]
    /\ freed[fcalls[2][1]] = 1
    /\ Items(Links, self) = <<before.items[1], before.items[3]>>
    /\ LinkConsistent(Links, self)

\* C29: with elements that have an entry field for each of two tags, every operation on
\* a list of one tag (push, pop, retain, append, clear) leaves alone the other tag's
\* headers, every element's entry field of the other tag, and the traversal order of the
\* other tag's lists. lastOp'.l is the list the step's operation is called on.
C29_OtherTagUntouched ==
    [][/\ (lastOp'.l \in Heads) =>
            /\ flink'[HeadB] = flink[HeadB] /\ blink'[HeadB] = blink[HeadB]
            /\ \A a \in TwoElemAddrs :
                  /\ flink'[entry_B(a)] = flink[entry_B(a)]
                  /\ blink'[entry_B(a)] = blink[entry_B(a)]
            /\ Items(LinksAfter, HeadB) = Items(Links, HeadB)
            /\ CollectBack(LinksAfter, iter(LinksAfter, HeadB), Fuel)
                  = CollectBack(Links, iter(Links, HeadB), Fuel)
       /\ (lastOp'.l = HeadB) =>
            /\ \A h \in Heads :
                  /\ flink'[h] = flink[h] /\ blink'[h] = blink[h]
                  /\ Items(LinksAfter, h) = Items(Links, h)
                  /\ CollectBack(LinksAfter, iter(LinksAfter, h), Fuel)
                        = CollectBack(Links, iter(Links, h), Fuel)
            /\ \A a \in TwoElemAddrs :
                  /\ flink'[entry(a)] = flink[entry(a)]
                  /\ blink'[entry(a)] = blink[entry(a)]
      ]_vars

\* retain has just removed the first of two elements from a list tagged MyList while
\* both are linked into the list tagged ListB, in the other order.
C29_Witness ==
    /\ lastOp.op = "retain"
    /\ lastOp.l \in Heads
    /\ lastOp.x = 1
    /\ Items(Links, lastOp.l) = <<TwoElemAddr(2)>>
    /\ Items(Links, HeadB) = <<in_tag(HeadB, TwoElemAddr(2)), in_tag(HeadB, TwoElemAddr(1))>>
    /\ flink[entry(TwoElemAddr(1))] = NULL
    /\ flink[entry_B(TwoElemAddr(2))] = entry_B(TwoElemAddr(1))
    /\ blink[entry_B(TwoElemAddr(1))] = entry_B(TwoElemAddr(2))

\* C30: after self.append(other), `other` is the empty list new() builds and shares no
\* node with any other list; a push onto a list links the new element into that list's
\* ring only and leaves every other list's elements, order and length as they were; an
\* append onto any list, the fresh or cleared third one included, moves exactly the
\* elements of its argument and leaves the remaining list alone; every list is
\* link-consistent after every call.
C30_AppendLeavesOtherIndependent ==
    [][/\ \A s \in ThreeHeads : \A other \in Heads : AppendOther(s, other) =>
            /\ Items(LinksAfter, s) = Items(Mem, s) \o Items(Mem, other)
            /\ Items(LinksAfter, other) = <<>>
            /\ flink'[other] = end_marker(other) /\ blink'[other] = end_marker(other)
            /\ \A g \in ThreeHeads \ {s, other} : Items(LinksAfter, g) = Items(Mem, g)
       /\ \A h \in Heads : (PushBack(h) \/ PushFront(h)) =>
            /\ Ring(LinksAfter, h) = Ring(Mem, h) \cup {entry(lastOp'.x)}
            /\ \A g \in ThreeHeads \ {h} :
                  /\ Items(LinksAfter, g) = Items(Mem, g)
                  /\ Ring(LinksAfter, g) = Ring(Mem, g)
                  /\ \A n \in Ring(Mem, g) : flink'[n] = Mem.f[n] /\ blink'[n] = Mem.b[n]
       /\ pc' = "idle" =>
            /\ \A g \in ThreeHeads : LinkConsistent(LinksAfter, g)
            /\ \A g, h \in ThreeHeads : g # h => Ring(LinksAfter, g) \cap Ring(LinksAfter, h) = {}
      ]_vars

\* list1 (or list2) received the other list's element by append, the emptied list then
\* got two pushes, and the first list has just been appended onto list3: list3 holds
\* exactly that one element and the pushed elements are where they were pushed.
C30_Witness ==
    /\ pc = "idle"
    /\ lastOp.op = "append"
    /\ lastOp.l = Head3
    /\ before = NoSnap \/ before.len = 0
    /\ Items(Links, Head3) = <<ElemAddr(1)>>
    /\ is_empty(Links, lastOp.x)
    /\ mode[lastOp.x] = "mixed"
    /\ \E o \in Heads \ {lastOp.x} :
          /\ mode[o] = "mixed"
          /\ Items(Links, o) = <<ElemAddr(3), ElemAddr(2)>>

\* C31: the forward iteration of an owning doubly linked list is an abstract sequence
\* that every call updates as a sequence: push_front prepends the new element, push_back
\* appends it, pop_front takes off and returns the first element, pop_back the last
\* (None and no change on the empty sequence), clear leaves the empty sequence; the
\* other list's sequence does not change; and after every call front() is the first and
\* back() the last element of the sequence and len() its length.
C31_RefinesSequence ==
    [][\A h \in Heads :
         LET abs == Items(Mem, h)
             abs_after == Items(LinksAfter, h)
         IN  /\ PushFront(h) => abs_after = <<lastOp'.x>> \o abs
             /\ PushBack(h) => abs_after = abs \o <<lastOp'.x>>
             /\ PopFront(h) =>
                   IF abs = <<>> THEN ret' = NULL /\ abs_after = <<>>
                   ELSE ret' = abs[1] /\ abs_after = SubSeq(abs, 2, Len(abs))
             /\ PopBack(h) =>
                   IF abs = <<>> THEN ret' = NULL /\ abs_after = <<>>
                   ELSE ret' = abs[Len(abs)] /\ abs_after = SubSeq(abs, 1, Len(abs) - 1)
             /\ ClearBegin(h) => abs_after = <<>>
             /\ (ClearStep \/ ClearReturn) => (self = h => abs_after = <<>>)
             /\ (PushFront(h) \/ PushBack(h) \/ PopFront(h) \/ PopBack(h) \/ ClearBegin(h)
                   \/ ((ClearStep \/ ClearReturn) /\ self = h)) =>
                   /\ \A g \in Heads \ {h} : Items(LinksAfter, g) = Items(Mem, g)
                   /\ front(LinksAfter, h) = (IF abs_after = <<>> THEN NULL ELSE abs_after[1])
                   /\ back(LinksAfter, h) =
                         (IF abs_after = <<>> THEN NULL ELSE abs_after[Len(abs_after)])
                   /\ len(LinksAfter, h) = Len(abs_after)
      ]_vars

\* A list that got push_back, push_front, push_back, in that order and possibly after a
\* clear of the fresh list: the element pushed at the front is first, the one pushed last
\* is last, nothing was ever released.
C31_Witness ==
    /\ pc = "idle"
    /\ lastOp.op = "push_back"
    /\ lastOp.x = ElemAddr(3)
    /\ mode[lastOp.l] = "mixed"
    /\ pushed[lastOp.l] = <<>>
    /\ Items(Links, lastOp.l) = <<ElemAddr(2), ElemAddr(1), ElemAddr(3)>>
    /\ front(Links, lastOp.l) = ElemAddr(2)
    /\ back(Links, lastOp.l) = ElemAddr(3)
    /\ \A a \in ElemAddrs : freed[a] = 0 /\ boxed[a] = 0

\* The entry fields of the input that carry #[boxed].
BoxedEntries(input) ==
    {i \in DOMAIN input.fields :
        input.fields[i].ty \in {"NtListEntry", "NtSingleListEntry"} /\ input.fields[i].boxed}

\* C32: deriving NtListElement for a struct with more than one #[boxed] entry field is
\* an error; a derive that succeeds implements NtBoxedListElement at most once, and
\* exactly once if and only if exactly one entry field is #[boxed].
C32_OneBoxedEntry ==
    lastOp.op = "derive" =>
        LET n == Cardinality(BoxedEntries(lastOp.l))
        IN  /\ n > 1 => ret.err # ""
            /\ ret.err = "" =>
                  /\ ret.NtBoxedListElement <= 1
                  /\ ret.NtBoxedListElement = 1 <=> n = 1
                  /\ ret.NtListElement >= 1
            /\ ret.err # "" => ret.NtBoxedListElement = 0 /\ ret.NtListElement = 0

\* The derive has refused a #[repr(C)] struct whose two entry fields are both #[boxed].
C32_Witness ==
    /\ lastOp.op = "derive"
    /\ lastOp.l.data = "struct" /\ lastOp.l.named /\ lastOp.l.repr_c
    /\ Len(lastOp.l.fields) = 3
    /\ Cardinality(BoxedEntries(lastOp.l)) = 2
    /\ ret.err = "Only a single entry field may have a #[boxed] attribute"

\* C33: iter() starts a fresh cursor from the header's current links and writes no link;
\* next(), next_back() and last() write no link of the header or of any entry; when a
\* traversal with next() is complete it has yielded the linked elements in order, the
\* list is observably what it was before (front, back, is_empty, len, order), and a
\* second traversal started then yields the same sequence.
C33_ReadOnly ==
    [][/\ \A h \in Heads : IterNew(h) =>
            /\ LinksAfter = Mem
            /\ it' = [head |-> h, flink |-> Mem.f[h], blink |-> Mem.b[h]]
            /\ Collect(LinksAfter, it', Fuel) = Elements(Mem, h)
       /\ (IterNext \/ IterNextBack \/ IterLast \/ IterEnd) => UNCHANGED <<flink, blink>>
       /\ (it # NoIter /\ backLog = <<>> /\ next(Links, it).ret = NULL) =>
            /\ fwdLog = Elements(Links, it.head)
            /\ Collect(Links, iter(Links, it.head), Fuel) = fwdLog
            /\ front(Links, it.head) = (IF fwdLog = <<>> THEN NULL ELSE fwdLog[1])
            /\ back(Links, it.head) = (IF fwdLog = <<>> THEN NULL ELSE fwdLog[Len(fwdLog)])
            /\ is_empty(Links, it.head) <=> fwdLog = <<>>
            /\ len(Links, it.head) = Len(fwdLog)
            /\ Snap(Links, it.head) = before
      ]_vars

\* A traversal of a list of three elements with next() has just returned None.
C33_Witness ==
    /\ it # NoIter
    /\ lastOp.op = "next"
    /\ ret = NULL
    /\ backLog = <<>>
    /\ Len(fwdLog) = 3
    /\ it.flink = it.head
    /\ flink[it.head] = entry(fwdLog[1])
    /\ blink[it.head] = entry(fwdLog[3])

\* C34: when producing or allocating an item fails inside extend, the list is as it
\* was before the extend or it is link-consistent, with every linked element on both
\* walks from the header; and when the Drop that follows a panic has returned, every
\* element that was linked into the list has been released exactly once.
C34_ExtendFailureAtomic ==
    [][/\ (ExtendPanic \/ ExtendAllocError) =>
            /\ LinkConsistent(LinksAfter, self)
            /\ Elements(LinksAfter, self) = Items(LinksAfter, self)
            /\ \A a \in Range(Elements(LinksAfter, self)) :
                  entry(a) \in Range(backward_entries(LinksAfter, self))
       /\ (DropReturn /\ lastOp.op = "panic") =>
            /\ \A a \in Allocated : Released(a) <= 1
            /\ \A a \in Allocated :
                  Released(a) = 0 => \E g \in Heads \ {self} : live[g] /\ a \in Linked(g)
      ]_vars

\* The entry belongs to an element that is allocated and has not been deallocated.
InMemory(e) ==
    /\ e \in Entries
    /\ containing_record(e) \in Allocated
    /\ Released(containing_record(e)) = 0

\* The link fields that unlinking entry e reads and writes are those of e and of its
\* two neighbours.
RemoveTouches(m, e) == {e, m.f[e], m.b[e]}

\* C35: no operation of the owning wrappers reads or writes a link field of a
\* deallocated element: the entry whose links the running loop of retain, clear or Drop
\* reads next is the end of the walk or is in memory, the entries an unlink by retain
\* or pop touches are headers or in memory, and the link fields of a deallocated
\* element are never written again.
C35_NoUseAfterFree ==
    /\ \A a \in Allocated :
          freed[a] > 0 =>
            flink[entry(a)] = NULL /\ blink[entry(a)] = NULL /\ single_next[entry(a)] = NULL
    /\ pc = "clear" => current = end_marker(self) \/ InMemory(current)
    /\ pc \in {"retain", "drop"} => itm.flink = itm.head \/ InMemory(itm.flink)
    /\ pc = "retain" /\ itm.flink # itm.head =>
          \A e \in RemoveTouches(Links, itm.flink) : e \in Heads \/ InMemory(e)
    /\ pc \in {"single_clear", "single_retain", "single_drop"} =>
          current = NULL \/ InMemory(current)
    /\ pc = "single_retain" => previous = SingleHead \/ InMemory(previous)
    /\ Idle => \A h \in Heads :
          live[h] =>
            \A e \in {Mem.f[h], Mem.b[h]} :
               e # h => \A t \in RemoveTouches(Mem, e) : t \in Heads \/ InMemory(t)
    /\ Idle /\ live[SingleHead] =>
          SingleMem[SingleHead] = NULL \/ InMemory(SingleMem[SingleHead])

\* retain is at a later element of a list after it deallocated an earlier one and
\* kept another.
C35_Witness ==
    /\ pc = "retain"
    /\ itm.flink # itm.head
    /\ Len(fcalls) = 2
    /\ \E i \in 1..2 : ~fcalls[i][2] /\ freed[fcalls[i][1]] = 1
    /\ \E i \in 1..2 : fcalls[i][2]

\* Following next k times from node cur, stopping at null.
RECURSIVE NextSteps(_, _, _)
NextSteps(n, cur, k) ==
    IF k = 0 \/ cur = NULL THEN cur ELSE NextSteps(n, n[cur], k - 1)

\* C36: between the operations of an NtBoxingSingleListHead, following next from the
\* header's next reaches null after exactly len() entries and not before, no entry
\* occurs twice on the way, and is_empty(), header.next being null and len() = 0 hold
\* together or not at all.
C36_SingleChainAcyclic ==
    LET h == SingleHead
        n == single_next
        l == single_len(n, h)
        OnChain == [k \in 1..l |-> NextSteps(n, n[h], k - 1)]
    IN  pc = "idle" /\ live[h] =>
          /\ NextSteps(n, n[h], l) = NULL
          /\ \A k \in 1..l : OnChain[k] \in Entries
          /\ \A j, k \in 1..l : OnChain[j] = OnChain[k] => j = k
          /\ single_is_empty(n, h) <=> n[h] = NULL
          /\ n[h] = NULL <=> l = 0
          /\ single_is_empty(n, h) <=> l = 0

\* A chain of two entries that a retain left behind after it removed an element.
C36_Witness ==
    /\ pc = "idle"
    /\ live[SingleHead]
    /\ lastOp.op = "retain"
    /\ single_len(single_next, SingleHead) = 2
    /\ \E a \in Allocated : freed[a] = 1
    /\ single_next[single_next[single_next[SingleHead]]] = NULL

\* Between memory m and memory r, unlinking entry e wrote the flink of e's predecessor
\* and the blink of e's successor and no other link field; e's own links are as in m.
UnlinkFrame(m, r, e) ==
    /\ r.f[m.b[e]] = m.f[e]
    /\ r.b[m.f[e]] = m.b[e]
    /\ \A n \in Nodes : r.f[n] # m.f[n] => n = m.b[e]
    /\ \A n \in Nodes : r.b[n] # m.b[n] => n = m.f[e]
    /\ r.f[e] = m.f[e] /\ r.b[e] = m.b[e]
    /\ m.f[e] # e /\ m.b[e] # e
    /\ Cardinality({n \in Nodes : r.f[n] # m.f[n]}) = 1
    /\ Cardinality({n \in Nodes : r.b[n] # m.b[n]}) = 1

\* C37: unlinking a doubly linked entry, in pop_front, pop_back and retain, writes the
\* flink of its predecessor and the blink of its successor and nothing else; the
\* removed entry's own flink and blink still hold the addresses of its former
\* neighbours.
C37_RemoveFrame ==
    [][/\ \A h \in Heads :
            /\ pc = "idle" /\ pc' = "idle"
            /\ lastOp'.op \in {"pop_front", "pop_back"} /\ lastOp'.l = h
            /\ ret' # NULL
            => /\ entry(ret') = IF lastOp'.op = "pop_front" THEN Mem.f[h] ELSE Mem.b[h]
               /\ UnlinkFrame(Mem, LinksAfter, entry(ret'))
       /\ pc = "retain" =>
            LET r == next(Links, itm)
            IN  r.ret # NULL => UnlinkFrame(Links, remove(Links, entry(r.ret)), entry(r.ret))
      ]_vars

\* pop_front has taken the first of several elements: the entry of the returned element
\* still names the header and the entry that is now first.
C37_Witness ==
    /\ pc = "idle"
    /\ lastOp.op = "pop_front"
    /\ ret # NULL
    /\ blink[entry(ret)] = lastOp.l
    /\ flink[entry(ret)] \in Entries
    /\ flink[lastOp.l] = flink[entry(ret)]
    /\ blink[flink[entry(ret)]] = lastOp.l

\* The predicate answered true (false) on every call so far.
AllKept(q) == \A i \in 1..Len(q) : q[i][2]
NoneKept(q) == \A i \in 1..Len(q) : ~q[i][2]

\* C38: for both list kinds, retain with a predicate that is always true leaves every
\* link of the header and of every entry as it was, and retain with a predicate that
\* is always false leaves the empty header state (flink = blink = header; next = null);
\* in the owning wrappers the latter has deallocated every element exactly once when it
\* returns.
C38_RetainAllOrNone ==
    [][/\ pc = "idle" =>
            /\ \A h \in Heads : live[h] =>
                  /\ retain(Mem, h, ElemAddrs) = Mem
                  /\ LET r == retain(Mem, h, {})
                     IN  r.f[h] = h /\ r.b[h] = h
            /\ live[SingleHead] =>
                  /\ single_retain(SingleMem, SingleHead, ElemAddrs) = SingleMem
                  /\ single_retain(SingleMem, SingleHead, {})[SingleHead] = NULL
       /\ /\ pc \in {"retain", "single_retain"}
          /\ AllKept(fcalls)
          /\ pc' = "idle" \/ AllKept(fcalls')
          => UNCHANGED <<flink, blink, single_next>>
       /\ /\ pc \in {"retain", "single_retain"}
          /\ pc' = "idle"
          /\ NoneKept(fcalls)
          => /\ self \in Heads => flink'[self] = self /\ blink'[self] = self
             /\ self = SingleHead => single_next'[self] = NULL
             /\ \A a \in Range(before.items) : freed'[a] = 1 /\ boxed'[a] = 0
      ]_vars

\* The owning retain of a doubly linked list of two elements is about to return, its
\* predicate having answered false both times: the header is in the empty state and
\* both elements are deallocated.
C38_Witness ==
    /\ pc = "retain"
    /\ next(Links, itm).ret = NULL
    /\ Len(fcalls) = 2
    /\ NoneKept(fcalls)
    /\ before.len = 2
    /\ flink[self] = self /\ blink[self] = self
    /\ \A i \in 1..2 : freed[fcalls[i][1]] = 1

====
